---- MODULE Spec2Model ----
(***************************************************************************)
(* A model of sonata_maker: the command-line checks of cli.main, the       *)
(* generation / validation / repair pipeline of pipeline.build_outputs and *)
(* generate.py, its render stages (render.py), the text functions of       *)
(* lilypond.py and motif.py, and the velocity balancing of midi.py.        *)
(*                                                                         *)
(* Text is modelled at the level of characters: a Python str is a sequence *)
(* of one-character strings, so that substring tests, regular-expression   *)
(* matches, escaping and whitespace handling are computed as the code      *)
(* computes them.  Compiler diagnostics, which only matter through strip,  *)
(* len and a trailing slice, are run-length encoded.                       *)
(***************************************************************************)
EXTENDS Integers, Sequences, FiniteSets, TLC

VARIABLES
    \* ---- build_outputs (pipeline.py) ----
    pc,           \* position in build_outputs
    attempt,      \* generate_sonata_lilypond: the loop variable `attempt`
    fix_attempt,  \* build_outputs: the loop variable `fix_attempt`
    last_err,     \* generate_sonata_lilypond: `last_err`
    ly_code,      \* build_outputs: `ly_code`, the text returned by generation
    ly_file,      \* the Score Source file ly_path on disk
    exc,          \* the exception `e` caught by the compile loop's handler
    error,        \* the exception that left build_outputs (fatal termination)
    genLog,       \* history: outcome of every generation attempt, in order
    compLog,      \* history: every compile attempt, in order
    repairLog,    \* history: every repair call, in order
    writes,       \* history: number of writes of ly_path
    lastRun,      \* history: the latest run of the compiler (its number, stderr)
    motif,        \* build_outputs: `motif_text`
    user_prompt,  \* generate_sonata_lilypond: `user_prompt`, its four substitutions
    \* ---- cli.main and the render stages of build_outputs ----
    args,         \* main: `args`, the parsed command line
    midi_raw,     \* build_outputs: `midi_raw`, the path compile_lilypond returned
    midi_for_audio, \* build_outputs: `midi_for_audio`
    disk,         \* the event-stream files in out_dir: path -> content
    stages,       \* history: every call of a render stage, in order
    outputs,      \* what build_outputs returned
    \* ---- the pure text functions, applied to drawn inputs ----
    fpc,          \* position of the function under study
    src,          \* input Score Source
    title,        \* input title
    out,          \* result of the first application
    out2,         \* result of the second application (header normalizer)
    errors,       \* Violation Set of the validator
    \* ---- the functions of midi.py, applied to drawn event streams ----
    mpc,          \* position of the function under study
    mid,          \* the input file: its time base and its tracks of events
    left_scale,   \* balance_midi_velocities: `left_scale`
    right_scale,  \* balance_midi_velocities: `right_scale`
    guessed,      \* what guess_lh_rh_channels returned
    outmid,       \* the file written by balance_midi_velocities
    returned      \* what balance_midi_velocities returned

vars == <<pc, attempt, fix_attempt, last_err, ly_code, ly_file, exc, error,
          genLog, compLog, repairLog, writes, lastRun, motif, user_prompt,
          args, midi_raw, midi_for_audio, disk, stages, outputs,
          fpc, src, title, out, out2, errors,
          mpc, mid, left_scale, right_scale, guessed, outmid, returned>>

pipeVars == <<pc, attempt, fix_attempt, last_err, ly_code, ly_file, exc, error,
              genLog, compLog, repairLog, writes, lastRun, motif, user_prompt,
              args, midi_raw, midi_for_audio, disk, stages, outputs>>

runVars == <<args, midi_raw, midi_for_audio, disk, stages, outputs>>

funVars == <<fpc, src, title, out, out2, errors>>

midiVars == <<mpc, mid, left_scale, right_scale, guessed, outmid, returned>>

-----------------------------------------------------------------------------
(* Characters and literal texts                                            *)

BS == "\\"
DQ == "\""
NL == "\n"
SP == " "

\* Python's \s and str.strip() whitespace, within the alphabet used here
IsSpace(c) == c \in {SP, NL, "\t"}

M_relative == <<"\\", "r", "e", "l", "a", "t", "i", "v", "e">>
M_version == <<"\\", "v", "e", "r", "s", "i", "o", "n">>
M_octaveCheck == <<"\\", "o", "c", "t", "a", "v", "e", "C", "h", "e", "c", "k">>
M_PianoStaff == <<"\\", "n", "e", "w", " ", "P", "i", "a", "n", "o", "S", "t", "a", "f", "f">>
M_midi == <<"\\", "m", "i", "d", "i">>
M_layout == <<"\\", "l", "a", "y", "o", "u", "t">>
K_header == <<"\\", "h", "e", "a", "d", "e", "r">>
K_title == <<"t", "i", "t", "l", "e">>
K_tagline == <<"t", "a", "g", "l", "i", "n", "e">>
K_tagoff == <<"#", "#", "f">>
\* the backquote character (the lexer of TLA+ accepts no backquote in a string)
BQ == "BACKQUOTE"
K_fence == <<BQ, BQ, BQ>>
K_lilypond == <<"l", "i", "l", "y", "p", "o", "n", "d">>

-----------------------------------------------------------------------------
(* String primitives                                                       *)

\* s[i:] and s[:i] of Python, with 1-based i: the text from i on / before i
From(s, i) == SubSeq(s, i, Len(s))
Before(s, i) == SubSeq(s, 1, i - 1)

\* p occurs in s at position i
StartsWithAt(s, i, p) ==
    /\ i >= 1
    /\ i + Len(p) - 1 <= Len(s)
    /\ SubSeq(s, i, i + Len(p) - 1) = p

\* Python's `p in s`
Contains(s, p) == \E i \in 1..(Len(s) - Len(p) + 1) : StartsWithAt(s, i, p)

\* the position a greedy \s* reaches from i (Len(s)+1 when it reaches the end)
SkipSpace(s, i) ==
    CHOOSE j \in i..(Len(s) + 1) :
        /\ \A k \in i..(j - 1) : IsSpace(s[k])
        /\ (j = Len(s) + 1 \/ ~IsSpace(s[j]))

\* the position of the first character c at or after i, Len(s)+1 when none
FindChar(s, i, c) ==
    CHOOSE j \in i..(Len(s) + 1) :
        /\ \A k \in i..(j - 1) : s[k] # c
        /\ (j = Len(s) + 1 \/ s[j] = c)

\* str.strip(): drop leading and trailing whitespace
Strip(s) ==
    LET a == SkipSpace(s, 1)
        b == IF a > Len(s) THEN 0
             ELSE CHOOSE j \in a..Len(s) :
                     /\ ~IsSpace(s[j])
                     /\ \A k \in (j + 1)..Len(s) : IsSpace(s[k])
    IN  IF a > Len(s) THEN <<>> ELSE SubSeq(s, a, b)

\* str.lstrip("\n")
LStripNL(s) ==
    LET a == CHOOSE j \in 1..(Len(s) + 1) :
                 /\ \A k \in 1..(j - 1) : s[k] = NL
                 /\ (j = Len(s) + 1 \/ s[j] # NL)
    IN  From(s, a)

RECURSIVE ReplaceChar(_, _, _)
\* str.replace(c, r) for a one-character c
ReplaceChar(s, c, r) ==
    IF s = <<>> THEN <<>>
    ELSE (IF Head(s) = c THEN r ELSE <<Head(s)>>) \o ReplaceChar(Tail(s), c, r)

-----------------------------------------------------------------------------
(* lilypond.py: escaping, sanitizing, validation                           *)

\* s.replace("\\", "\\\\").replace('"', '\\"'): two passes, backslashes first
lilypond_escape_string(s) ==
    ReplaceChar(ReplaceChar(s, BS, <<BS, BS>>), DQ, <<BS, DQ>>)

\* re.sub(r"^```(?:lilypond)?\s*", "", t): the pattern is anchored at the start
StripOpeningFence(t) ==
    IF ~StartsWithAt(t, 1, K_fence) THEN t
    ELSE LET a == 1 + Len(K_fence)
             b == IF StartsWithAt(t, a, K_lilypond) THEN a + Len(K_lilypond) ELSE a
         IN  From(t, SkipSpace(t, b))

\* re.sub(r"\s*```$", "", t): $ matches at the end and before a final newline;
\* the match starts where the whitespace run in front of the fence starts
StripClosingFence(t) ==
    LET n == Len(t)
        ends == {f \in 1..n : /\ StartsWithAt(t, f, K_fence)
                              /\ \/ f + Len(K_fence) = n + 1
                                 \/ (f + Len(K_fence) = n /\ t[n] = NL)}
    IN  IF ends = {} THEN t
        ELSE LET f == CHOOSE x \in ends : TRUE
                 i == CHOOSE x \in 1..f : /\ \A k \in x..(f - 1) : IsSpace(t[k])
                                          /\ (x = 1 \/ ~IsSpace(t[x - 1]))
             IN  Before(t, i) \o From(t, f + Len(K_fence))

sanitize_model_output(text) ==
    Strip(StripClosingFence(StripOpeningFence(Strip(text))))

\* the messages of the six rules, in the order the code tests them
MsgRelative == "Forbidden: found \\relative (must use absolute pitches)."
MsgVersion == "Missing \\version declaration."
MsgOctaveCheck == "Missing \\octaveCheck anchors."
MsgPianoStaff == "Missing \\new PianoStaff."
MsgMidi == "Missing \\midi block."
MsgLayout == "Missing \\layout block."

\* one `if ...: errors.append(...)` statement
AppendIf(errs, cond, msg) == IF cond THEN Append(errs, msg) ELSE errs

\* faulty variant: the tests are chained with elif, so that only the first violation
\* is reported
validate_lilypond_source_ShortCircuit(s) ==
    IF Contains(s, M_relative) THEN <<MsgRelative>>
    ELSE IF ~Contains(s, M_version) THEN <<MsgVersion>>
    ELSE IF ~Contains(s, M_octaveCheck) THEN <<MsgOctaveCheck>>
    ELSE IF ~Contains(s, M_PianoStaff) THEN <<MsgPianoStaff>>
    ELSE IF ~Contains(s, M_midi) THEN <<MsgMidi>>
    ELSE IF ~Contains(s, M_layout) THEN <<MsgLayout>>
    ELSE <<>>

\* the list `errors` validate_lilypond_source has built when it reaches
\* `if errors:`; the function raises exactly when the list is not empty
validate_lilypond_source(s) ==
    LET e1 == AppendIf(<<>>, Contains(s, M_relative), MsgRelative)
        e2 == AppendIf(e1, ~Contains(s, M_version), MsgVersion)
        e3 == AppendIf(e2, ~Contains(s, M_octaveCheck), MsgOctaveCheck)
        e4 == AppendIf(e3, ~Contains(s, M_PianoStaff), MsgPianoStaff)
        e5 == AppendIf(e4, ~Contains(s, M_midi), MsgMidi)
        e6 == AppendIf(e5, ~Contains(s, M_layout), MsgLayout)
    IN  e6

-----------------------------------------------------------------------------
(* lilypond.py: inject_or_update_header                                    *)

NoMatch == [found |-> FALSE, start |-> 0, body |-> 0, stop |-> 0]

\* header_pat = (\\header\s*\{)(.*?)(\}) with DOTALL, searched leftmost:
\* `start` is where \header begins, `body` where group 2 begins, `stop` the
\* position of the first closing brace after the opening one
HeaderAt(s, i) ==
    LET j == SkipSpace(s, i + Len(K_header))
        k == FindChar(s, j + 1, "}")
    IN  IF /\ StartsWithAt(s, i, K_header)
           /\ j <= Len(s) /\ s[j] = "{"
           /\ k <= Len(s)
        THEN [found |-> TRUE, start |-> i, body |-> j + 1, stop |-> k]
        ELSE NoMatch

HeaderSearch(s) ==
    LET hits == {i \in 1..Len(s) : HeaderAt(s, i).found}
    IN  IF hits = {} THEN NoMatch
        ELSE HeaderAt(s, CHOOSE i \in hits : \A h \in hits : i <= h)

\* field_pat = (^\s*<field>\s*=\s*.*$) with MULTILINE, tried at position p:
\* ^ holds at the start and after every newline, each \s* is greedy (and runs
\* over newlines), .* runs to the end of the line
FieldAt(b, p, field) ==
    LET q == SkipSpace(b, p)
        r == SkipSpace(b, q + Len(field))
        t == SkipSpace(b, r + 1)
    IN  IF /\ (p = 1 \/ b[p - 1] = NL)
           /\ StartsWithAt(b, q, field)
           /\ r <= Len(b) /\ b[r] = "="
        THEN [found |-> TRUE, start |-> p, body |-> q, stop |-> FindChar(b, t, NL)]
        ELSE NoMatch

FieldSearch(b, field) ==
    LET hits == {p \in 1..Len(b) : FieldAt(b, p, field).found}
    IN  IF hits = {} THEN NoMatch
        ELSE FieldAt(b, CHOOSE p \in hits : \A h \in hits : p <= h, field)

RECURSIVE ExpandTemplate(_)
\* what re.sub makes of a replacement string: a backslash pair becomes one
\* backslash; a backslash before a character that is neither a letter nor a
\* digit stays, with that character
ExpandTemplate(r) ==
    IF r = <<>> THEN <<>>
    ELSE IF Head(r) = BS /\ Len(r) >= 2
         THEN (IF r[2] = BS THEN <<BS>> ELSE <<BS, r[2]>>)
              \o ExpandTemplate(From(r, 3))
         ELSE <<Head(r)>> \o ExpandTemplate(Tail(r))

\* replacement_line = f"  {field} = {value}"
ReplacementLine(field, value) == <<SP, SP>> \o field \o <<SP, "=", SP>> \o value

ensure_field(body, field, value) ==
    LET m == FieldSearch(body, field)
        line == ReplacementLine(field, value)
    IN  IF m.found
        THEN Before(body, m.start) \o ExpandTemplate(line) \o From(body, m.stop)
        ELSE line \o <<NL>> \o LStripNL(body)

\* version_pat = (\\version\s+"[^"]+"\s*): `stop` is the position after the match
VersionAt(s, i) ==
    LET j == SkipSpace(s, i + Len(M_version))
        k == FindChar(s, j + 1, DQ)
    IN  IF /\ StartsWithAt(s, i, M_version)
           /\ j > i + Len(M_version)
           /\ j <= Len(s) /\ s[j] = DQ
           /\ k <= Len(s) /\ k > j + 1
        THEN [found |-> TRUE, start |-> i, body |-> j, stop |-> SkipSpace(s, k + 1)]
        ELSE NoMatch

VersionSearch(s) ==
    LET hits == {i \in 1..Len(s) : VersionAt(s, i).found}
    IN  IF hits = {} THEN NoMatch
        ELSE VersionAt(s, CHOOSE i \in hits : \A h \in hits : i <= h)

QuotedTitle(t) == <<DQ>> \o lilypond_escape_string(t) \o <<DQ>>

\* f'\\header {{\n  title = "{title_esc}"\n  tagline = ##f\n}}\n\n'
HeaderBlock(t) ==
    K_header \o <<SP, "{", NL, SP, SP>> \o K_title \o <<SP, "=", SP>>
    \o QuotedTitle(t) \o <<NL, SP, SP>> \o K_tagline \o <<SP, "=", SP>>
    \o K_tagoff \o <<NL, "}", NL, NL>>

inject_or_update_header(s, t) ==
    LET m == HeaderSearch(s)
        vm == VersionSearch(s)
    IN  IF m.found
        THEN LET body == SubSeq(s, m.body, m.stop - 1)
                 body2 == ensure_field(ensure_field(body, K_title, QuotedTitle(t)),
                                       K_tagline, K_tagoff)
             IN  Before(s, m.body) \o body2 \o From(s, m.stop)
        ELSE IF vm.found
             THEN Before(s, vm.stop) \o <<NL>> \o HeaderBlock(t) \o From(s, vm.stop)
             ELSE HeaderBlock(t) \o s

-----------------------------------------------------------------------------
(* Inputs of the text functions: Score Sources put together from fragments *)

F_versionLine == <<"\\", "v", "e", "r", "s", "i", "o", "n", " ", "\"", "2", "\"", "\n">>
F_hdrFull == <<"\\", "h", "e", "a", "d", "e", "r", " ", "{", "\n", " ", " ", "t", "i", "t", "l", "e", " ", "=", " ", "\"", "O", "\"", "\n", " ", " ", "t", "a", "g", "l", "i", "n", "e", " ", "=", " ", "#", "#", "t", "\n", "}", "\n">>
F_hdrComposer == <<"\\", "h", "e", "a", "d", "e", "r", " ", "{", "\n", " ", " ", "c", "o", "m", "p", "o", "s", "e", "r", " ", "=", " ", "\"", "B", "\"", "\n", "}", "\n">>
F_hdrInline == <<"\\", "h", "e", "a", "d", "e", "r", " ", "{", " ", "t", "i", "t", "l", "e", " ", "=", " ", "\"", "O", "\"", " ", "}">>
F_hdrNested == <<"\\", "h", "e", "a", "d", "e", "r", " ", "{", "\n", " ", " ", "t", "i", "t", "l", "e", " ", "=", " ", "\\", "m", "a", "r", "k", "u", "p", " ", "{", " ", "\"", "O", "\"", " ", "}", "\n", " ", " ", "c", "o", "m", "p", "o", "s", "e", "r", " ", "=", " ", "\"", "B", "\"", "\n", "}", "\n">>
\* a score whose own header names the piece: a second header block
F_scoreHdr == <<"\\", "s", "c", "o", "r", "e", " ", "{", " ", "\\", "h", "e", "a", "d", "e", "r", " ", "{", " ", "p", "i", "e", "c", "e", " ", "=", " ", "\"", "P", "\"", " ", "}", " ", "}", "\n">>
F_staff == <<"\\", "n", "e", "w", " ", "P", "i", "a", "n", "o", "S", "t", "a", "f", "f", " ", "{", " ", "}">>
F_octave == <<"\\", "o", "c", "t", "a", "v", "e", "C", "h", "e", "c", "k", " ", "c", "'", "\n">>
F_midiBlk == <<"\\", "m", "i", "d", "i", " ", "{", " ", "}", "\n">>
F_layoutBlk == <<"\\", "l", "a", "y", "o", "u", "t", " ", "{", " ", "}", "\n">>
F_relBlk == <<"\\", "r", "e", "l", "a", "t", "i", "v", "e", " ", "c", "'", " ", "{", " ", "c", " ", "}", "\n">>
F_decoy == <<"\\", "r", "e", "l", " ", "a", "t", "i", "v", "e", " ", "\\", "m", "i", "d", " ", "\\", "n", "e", "w", " ", "P", "i", "a", "n", "o", "\n">>

\* how many decoy fragments (near misses of the markers) a source may start with
MaxDecoys == 1
\* the longest title drawn
MaxTitleLen == 2

TitleChars == {"a", BS, DQ, "}"}

Titles == UNION {[1..n -> TitleChars] : n \in 0..MaxTitleLen}

Opt(on, frag) == IF on THEN frag ELSE <<>>

RECURSIVE Repeat(_, _)
Repeat(frag, n) == IF n = 0 THEN <<>> ELSE frag \o Repeat(frag, n - 1)

\* a source per choice of which of the six marked fragments it holds
ValSource(b, d) ==
    Repeat(F_decoy, d)
    \o Opt(b[1], F_versionLine) \o Opt(b[2], F_octave) \o Opt(b[3], F_staff)
    \o Opt(b[4], F_relBlk) \o Opt(b[5], F_midiBlk) \o Opt(b[6], F_layoutBlk)

ValSources == {ValSource(b, d) : b \in [1..6 -> BOOLEAN], d \in 0..MaxDecoys}

HdrPrefixes == {<<>>, F_versionLine}
HdrHeaders == {<<>>, F_hdrFull, F_hdrComposer, F_hdrInline, F_hdrNested}
HdrSuffixes == {<<>>, F_staff, F_scoreHdr}

HdrSources == {p \o h \o x : p \in HdrPrefixes, h \in HdrHeaders, x \in HdrSuffixes}

-----------------------------------------------------------------------------
(* motif.py: extract_key_and_time, and the prompt of generate.py 35-41     *)

K_key == <<"\\", "k", "e", "y">>
K_time == <<"\\", "t", "i", "m", "e">>
K_major == <<"m", "a", "j", "o", "r">>
K_minor == <<"m", "i", "n", "o", "r">>
D_key == <<"g", " ", "m", "a", "j", "o", "r">>
D_time == <<"2", "/", "4">>

IsDigit(c) == c \in {"0", "1", "2", "3", "4", "5", "6", "7", "8", "9"}

RECURSIVE SkipDigits(_, _)
SkipDigits(s, i) ==
    IF i <= Len(s) /\ IsDigit(s[i]) THEN SkipDigits(s, i + 1) ELSE i

\* the accidentals (?:is|es|#|b)?, in the order the pattern tries them
Accidentals == <<<<"i", "s">>, <<"e", "s">>, <<"#">>, <<"b">>, <<>>>>

\* KEY_RE = \\key\s+([a-g](?:is|es|#|b)?)\s+\\(major|minor) tried at i, the
\* accidental being the a-th of the list
KeyAt(s, i, a) ==
    LET j == SkipSpace(s, i + Len(K_key))
        k == j + 1 + Len(Accidentals[a])
        l == SkipSpace(s, k)
        mode == IF StartsWithAt(s, l + 1, K_major) THEN K_major ELSE K_minor
    IN  IF /\ StartsWithAt(s, i, K_key)
           /\ j > i + Len(K_key)
           /\ j <= Len(s) /\ s[j] \in {"a", "b", "c", "d", "e", "f", "g"}
           /\ StartsWithAt(s, j + 1, Accidentals[a])
           /\ l > k
           /\ l <= Len(s) /\ s[l] = BS
           /\ (StartsWithAt(s, l + 1, K_major) \/ StartsWithAt(s, l + 1, K_minor))
        THEN [found |-> TRUE, tonic |-> SubSeq(s, j, k - 1), mode |-> mode]
        ELSE [found |-> FALSE, tonic |-> <<>>, mode |-> <<>>]

\* KEY_RE.search: the leftmost match, with the first accidental that fits
KeySearch(s) ==
    LET hits == {h \in (1..Len(s)) \X (1..Len(Accidentals)) : KeyAt(s, h[1], h[2]).found}
        first == CHOOSE h \in hits :
                    \A g \in hits : h[1] < g[1] \/ (h[1] = g[1] /\ h[2] <= g[2])
    IN  IF hits = {} THEN KeyAt(<<>>, 1, 1) ELSE KeyAt(s, first[1], first[2])

\* TIME_RE = \\time\s+(\d+/\d+) tried at i
TimeAt(s, i) ==
    LET j == SkipSpace(s, i + Len(K_time))
        k == SkipDigits(s, j)
        l == SkipDigits(s, k + 1)
    IN  IF /\ StartsWithAt(s, i, K_time)
           /\ j > i + Len(K_time)
           /\ k > j
           /\ k <= Len(s) /\ s[k] = "/"
           /\ l > k + 1
        THEN [found |-> TRUE, sig |-> SubSeq(s, j, l - 1)]
        ELSE [found |-> FALSE, sig |-> <<>>]

TimeSearch(s) ==
    LET hits == {i \in 1..Len(s) : TimeAt(s, i).found}
    IN  IF hits = {} THEN TimeAt(<<>>, 1)
        ELSE TimeAt(s, CHOOSE i \in hits : \A h \in hits : i <= h)

RECURSIVE ReplaceAll(_, _, _)
\* str.replace(old, new), old not empty
ReplaceAll(s, old, new) ==
    IF s = <<>> THEN <<>>
    ELSE IF StartsWithAt(s, 1, old)
         THEN new \o ReplaceAll(From(s, Len(old) + 1), old, new)
         ELSE <<Head(s)>> \o ReplaceAll(Tail(s), old, new)

\* faulty variant: the defaults are used unless both markers are found
extract_key_and_time_Coupled(m) ==
    LET km == KeySearch(m)
        tm == TimeSearch(m)
    IN  IF km.found /\ tm.found
        THEN <<ReplaceAll(ReplaceAll(km.tonic \o <<SP>> \o km.mode,
                                     <<"i", "s">>, <<"#">>), <<"e", "s">>, <<"b">>),
               tm.sig>>
        ELSE <<D_key, D_time>>

\* extract_key_and_time: (key_desc, time_sig)
extract_key_and_time(m) ==
    LET km == KeySearch(m)
        tm == TimeSearch(m)
    IN  <<IF km.found
          THEN ReplaceAll(ReplaceAll(km.tonic \o <<SP>> \o km.mode,
                                     <<"i", "s">>, <<"#">>), <<"e", "s">>, <<"b">>)
          ELSE D_key,
          IF tm.found THEN tm.sig ELSE D_time>>

\* generate.py 35-41: what USER_PROMPT_TEMPLATE.format is given
UserPrompt(m, t) ==
    [motif |-> Strip(m),
     key_desc |-> extract_key_and_time(m)[1],
     time_sig |-> extract_key_and_time(m)[2],
     title |-> Strip(t)]

\* motifs with neither marker, with a key only, with a time only, with both
Mo_plain == <<"c", "'", "4", " ", "d", "'", "4", "\n">>
Mo_keyOnly == <<"\\", "k", "e", "y", " ", "a", " ", "\\", "m", "i", "n", "o", "r", " ", "c", "'", "4", " ", "d", "'", "4">>
Mo_timeOnly == <<"\\", "t", "i", "m", "e", " ", "5", "/", "4", " ", "c", "'", "4", " ", "d", "'", "4">>
Mo_both == <<"\\", "k", "e", "y", " ", "f", "i", "s", " ", "\\", "m", "a", "j", "o", "r", " ", "\\", "t", "i", "m", "e", " ", "4", "/", "4", " ", "f", "i", "s", "'", "1">>
Motifs == {Mo_plain, Mo_keyOnly, Mo_timeOnly, Mo_both}

-----------------------------------------------------------------------------
(* The pipeline at rest, while a text function is studied, and conversely  *)

NoError == [type |-> "None"]
NoFile == [exists |-> FALSE, text |-> <<>>]
NoRun == [n |-> 0, stderr |-> <<>>]
NoPrompt == [motif |-> <<>>, key_desc |-> <<>>, time_sig |-> <<>>, title |-> <<>>]
NoArgs == [name |-> <<>>]
\* Python's None, where a path is expected
NoPath == <<>>
NoDisk == <<>>
NoOutputs == [type |-> "None"]

RunIdle ==
    /\ args = NoArgs /\ midi_raw = NoPath /\ midi_for_audio = NoPath
    /\ disk = NoDisk /\ stages = <<>> /\ outputs = NoOutputs

PipeIdle ==
    /\ pc = "idle" /\ attempt = 0 /\ fix_attempt = 0
    /\ last_err = NoError /\ ly_code = <<>> /\ ly_file = NoFile
    /\ exc = NoError /\ error = NoError
    /\ genLog = <<>> /\ compLog = <<>> /\ repairLog = <<>> /\ writes = 0
    /\ lastRun = NoRun
    /\ motif = <<>> /\ user_prompt = NoPrompt
    /\ RunIdle

FunIdle ==
    /\ fpc = "idle" /\ src = <<>> /\ title = <<>>
    /\ out = <<>> /\ out2 = <<>> /\ errors = <<>>

\* Python's None, where a channel number is expected
None == -1
NoMidi == [ticks_per_beat |-> 0, tracks |-> <<>>]
NoScale == [num |-> 0, den |-> 1]

MidiIdle ==
    /\ mpc = "idle" /\ mid = NoMidi
    /\ left_scale = NoScale /\ right_scale = NoScale
    /\ guessed = <<None, None>> /\ outmid = NoMidi /\ returned = <<None, None>>

-----------------------------------------------------------------------------
(* SpecVal: validate_lilypond_source applied to a drawn source             *)

InitVal ==
    /\ PipeIdle /\ MidiIdle
    /\ fpc = "input" /\ src \in ValSources /\ title = <<>>
    /\ out = <<>> /\ out2 = <<>> /\ errors = <<>>

Validate ==
    /\ fpc = "input"
    /\ errors' = validate_lilypond_source(src)
    /\ fpc' = "validated"
    /\ UNCHANGED <<src, title, out, out2>>
    /\ UNCHANGED <<pipeVars, midiVars>>

NextVal == Validate

SpecVal == InitVal /\ [][NextVal]_vars

-----------------------------------------------------------------------------
(* SpecHdr: inject_or_update_header applied once, then again               *)

InitHdr ==
    /\ PipeIdle /\ MidiIdle
    /\ fpc = "input" /\ src \in HdrSources /\ title \in Titles
    /\ out = <<>> /\ out2 = <<>> /\ errors = <<>>

NormalizeOnce ==
    /\ fpc = "input"
    /\ out' = inject_or_update_header(src, title)
    /\ fpc' = "once"
    /\ UNCHANGED <<src, title, out2, errors>>
    /\ UNCHANGED <<pipeVars, midiVars>>

NormalizeTwice ==
    /\ fpc = "once"
    /\ out2' = inject_or_update_header(out, title)
    /\ fpc' = "twice"
    /\ UNCHANGED <<src, title, out, errors>>
    /\ UNCHANGED <<pipeVars, midiVars>>

NextHdr == NormalizeOnce \/ NormalizeTwice

SpecHdr == InitHdr /\ [][NextHdr]_vars

-----------------------------------------------------------------------------
(* Compiler diagnostics: a text as a sequence of runs [c, n] (n times the  *)
(* character c), so that texts longer than the excerpt limit can be drawn  *)

ExcerptLimit == 4000

RECURSIVE RLen(_)
\* len(text)
RLen(r) == IF r = <<>> THEN 0 ELSE Head(r).n + RLen(Tail(r))

RECURSIVE RLStrip(_)
RLStrip(r) ==
    IF r # <<>> /\ IsSpace(Head(r).c) THEN RLStrip(Tail(r)) ELSE r

RECURSIVE RRStrip(_)
RRStrip(r) ==
    IF r # <<>> /\ IsSpace(r[Len(r)].c) THEN RRStrip(Before(r, Len(r))) ELSE r

\* text.strip()
RStrip(r) == RRStrip(RLStrip(r))

RECURSIVE RLastN(_, _)
\* text[-k:] for k > 0
RLastN(r, k) ==
    IF r = <<>> THEN <<>>
    ELSE LET last == r[Len(r)]
         IN  IF last.n >= k THEN <<[c |-> last.c, n |-> k]>>
             ELSE RLastN(Before(r, Len(r)), k - last.n) \o <<last>>

\* faulty variant: the excerpt is not cut
Excerpt_NoCut(stderr) == RStrip(stderr)

\* fix_sonata_lilypond: excerpt = stderr.strip(), cut to its last 4000 characters
Excerpt(stderr) ==
    LET e == RStrip(stderr)
    IN  IF RLen(e) > ExcerptLimit THEN RLastN(e, ExcerptLimit) ELSE e

\* what a run of the compiler may write to stderr: a short text, and one that
\* is longer than the excerpt limit once stripped
E_short == <<[c |-> "e", n |-> 12], [c |-> NL, n |-> 1]>>
E_long == <<[c |-> "w", n |-> 1], [c |-> "e", n |-> ExcerptLimit], [c |-> NL, n |-> 1]>>
Stderrs == {E_short, E_long}

-----------------------------------------------------------------------------
(* The environment of build_outputs                                        *)

MaxGenerationAttempts == 2
MaxCompileFixAttempts == 2

\* texts the generation service may return
R_plain == F_versionLine \o F_octave \o F_staff \o <<NL>> \o F_midiBlk \o F_layoutBlk
R_fenced ==
    K_fence \o K_lilypond \o <<NL>> \o F_versionLine \o F_hdrFull \o F_octave
    \o F_staff \o <<NL>> \o F_midiBlk \o F_layoutBlk \o K_fence
R_relative == R_plain \o F_relBlk
R_bare == <<SP>> \o F_staff \o <<NL>>
Responses == {R_plain, R_fenced, R_relative, R_bare}

\* ways the call to the generation service may raise
ServiceFailures == {"network", "auth"}

\* --title arguments, and the validated --name
TitleArgs == {<<"S", SP>>, <<SP>>}
Basename == <<"o", "u", "t">>

\* the exceptions
ServiceError(k) == [type |-> "APIError", what |-> k]
ValidationError(errs) ==
    [type |-> "SonataGenerationError", what |-> "validation", violations |-> errs]
GenerationError(last) ==
    [type |-> "SonataGenerationError", what |-> "generation", last |-> last]
CompileError(stderr) ==
    [type |-> "SonataGenerationError", what |-> "compile", stderr |-> stderr]
CompileFinalError(e, stderr) ==
    [type |-> "SonataGenerationError", what |-> "compile_final", cause |-> e,
     stderr |-> stderr]
FileNotFound(what) == [type |-> "FileNotFoundError", what |-> what]

\* pipeline.py 46: title = title.strip() if title.strip() else basename
RunTitle(targ) == IF Strip(targ) # <<>> THEN Strip(targ) ELSE Basename
RunTitles == {RunTitle(targ) : targ \in TitleArgs}

\* generate.py 59-60 and 102-103: the response, sanitized and header-normalized
Normalized(r, t) == inject_or_update_header(sanitize_model_output(r), t)

\* Normalized, and the validator's verdict on it, tabulated over the texts the
\* service may return and the titles of a run
NormalizedOf == [r \in Responses, t \in RunTitles |-> Normalized(r, t)]
ViolationsOf ==
    [r \in Responses, t \in RunTitles |-> validate_lilypond_source(NormalizedOf[r, t])]

\* UserPrompt tabulated over the motifs and the titles of a run
UserPromptOf == [m \in Motifs, t \in RunTitles |-> UserPrompt(m, t)]

\* one more run of the compiler, writing `stderr`
RunCompiler(stderr) == [n |-> lastRun.n + 1, stderr |-> stderr]

-----------------------------------------------------------------------------
(* cli.main before build_outputs: the checks of the command line           *)

ValueError(what) == [type |-> "ValueError", what |-> what]
UsageError(what) == [type |-> "UsageError", what |-> what]

Lower ==
    {"a", "b", "c", "d", "e", "f", "g", "h", "i", "j", "k", "l", "m",
     "n", "o", "p", "q", "r", "s", "t", "u", "v", "w", "x", "y", "z"}
Upper ==
    {"A", "B", "C", "D", "E", "F", "G", "H", "I", "J", "K", "L", "M",
     "N", "O", "P", "Q", "R", "S", "T", "U", "V", "W", "X", "Y", "Z"}
Digits == {"0", "1", "2", "3", "4", "5", "6", "7", "8", "9"}

\* re.fullmatch(r"[A-Za-z0-9][A-Za-z0-9._-]*", name)
NameMatches(name) ==
    /\ Len(name) >= 1
    /\ name[1] \in Lower \cup Upper \cup Digits
    /\ \A i \in 2..Len(name) : name[i] \in Lower \cup Upper \cup Digits \cup {".", "_", "-"}

\* faulty variant: the leading dot is not looked at
validate_basename_DotAllowed(name) ==
    IF Contains(name, <<"/">>) \/ Contains(name, <<BS>>)
    THEN [raised |-> TRUE, error |-> ValueError("separators")]
    ELSE IF ~(Len(name) >= 1 /\ \A i \in 1..Len(name) :
                 name[i] \in Lower \cup Upper \cup Digits \cup {".", "_", "-"})
    THEN [raised |-> TRUE, error |-> ValueError("characters")]
    ELSE [raised |-> FALSE, value |-> name]

\* tools.py 89-97: the name, or the ValueError raised
validate_basename(name) ==
    IF StartsWithAt(name, 1, <<".">>)
    THEN [raised |-> TRUE, error |-> ValueError("dot")]
    ELSE IF Contains(name, <<"/">>) \/ Contains(name, <<BS>>)
    THEN [raised |-> TRUE, error |-> ValueError("separators")]
    ELSE IF ~NameMatches(name)
    THEN [raised |-> TRUE, error |-> ValueError("characters")]
    ELSE [raised |-> FALSE, value |-> name]

\* cli.py 134: the range of --fluidsynth-gain, in hundredths
GainMin == 5
GainMax == 500

\* the SoundFont path given with --soundfont
K_soundfont == <<"p", ".", "s", "f", "2">>

\* a command line main accepts: scales 0.5 and 2.0, gain 0.7
GoodArgs ==
    [soundfont |-> K_soundfont, name |-> Basename,
     lh_scale |-> [num |-> 1, den |-> 2], rh_scale |-> [num |-> 2, den |-> 1],
     fluidsynth_gain |-> 70, no_midi_balance |-> FALSE]

\* cli.py 120-150: what main does with the command line `a` before it calls
\* build_outputs, the checks in the order of the code; `motif_found`: the
\* motif file can be read; `missing`: the programs that are not on PATH
MainOutcome(a, motif_found, missing) ==
    IF a.soundfont = NoPath
    THEN [pc |-> "rejected", error |-> UsageError("soundfont"), read |-> FALSE]
    ELSE IF validate_basename(a.name).raised
    THEN [pc |-> "rejected", error |-> validate_basename(a.name).error, read |-> FALSE]
    ELSE IF a.lh_scale.num <= 0 \/ a.rh_scale.num <= 0
    THEN [pc |-> "rejected", error |-> UsageError("scale"), read |-> FALSE]
    ELSE IF ~(GainMin <= a.fluidsynth_gain /\ a.fluidsynth_gain <= GainMax)
    THEN [pc |-> "rejected", error |-> UsageError("gain"), read |-> FALSE]
    ELSE IF ~motif_found
    THEN [pc |-> "crashed", error |-> FileNotFound("motif"), read |-> FALSE]
    ELSE IF missing # {}
    THEN [pc |-> "rejected", error |-> FileNotFound("tool"), read |-> TRUE]
    ELSE [pc |-> "setup", error |-> NoError, read |-> TRUE]

\* the exit status of main: 2 for a rejected command line (cli.py 122-150),
\* 1 when build_outputs raised (179) or an exception left main, 0 at the end
ExitStatus ==
    CASE pc = "rejected" -> 2
      [] pc \in {"fatal", "crashed"} -> 1
      [] pc = "done" -> 0
      [] OTHER -> None

\* the event-stream file a successful compile leaves: a low voice on channel
\* 0 and a high voice on channel 1, time base 384
CompiledMidi ==
    [ticks_per_beat |-> 384,
     tracks |-> <<
        <<[type |-> "note_on", channel |-> 0, note |-> 40, velocity |-> 120, time |-> 0],
          [type |-> "note_on", channel |-> 1, note |-> 72, velocity |-> 5, time |-> 1],
          [type |-> "note_off", channel |-> 0, note |-> 40, velocity |-> 64, time |-> 2]>> >>]

K_extMidi == <<".", "m", "i", "d", "i">>
K_extMid == <<".", "m", "i", "d">>
K_extPdf == <<".", "p", "d", "f">>
K_mixSuffix == <<"_", "m", "i", "x", ".", "m", "i", "d", "i">>

\* the files the compiler may leave in out_dir after it exited with 0
Artifacts == [pdf : BOOLEAN, midi : BOOLEAN, mid : BOOLEAN]

\* lilypond.py 115-128: what compile_lilypond does once the compiler has
\* exited with 0 and left the files `f`: the path of the event stream it
\* returns, or the FileNotFoundError it raises
CompiledArtifacts(b, f) ==
    IF ~f.pdf THEN [raised |-> TRUE, error |-> FileNotFound("pdf")]
    ELSE IF ~f.midi /\ ~f.mid THEN [raised |-> TRUE, error |-> FileNotFound("midi")]
    ELSE [raised |-> FALSE, midi |-> b \o (IF f.midi THEN K_extMidi ELSE K_extMid)]

-----------------------------------------------------------------------------
(* Spec: build_outputs, from setup to the end of the compile+repair loop   *)

Init ==
    /\ pc = "setup" /\ attempt = 0 /\ fix_attempt = 0
    /\ last_err = NoError /\ ly_code = <<>> /\ ly_file = NoFile
    /\ exc = NoError /\ error = NoError
    /\ genLog = <<>> /\ compLog = <<>> /\ repairLog = <<>> /\ writes = 0
    /\ lastRun = NoRun
    /\ motif \in Motifs /\ user_prompt = NoPrompt
    /\ args = GoodArgs /\ midi_raw = NoPath /\ midi_for_audio = NoPath
    /\ disk = NoDisk /\ stages = <<>> /\ outputs = NoOutputs
    /\ FunIdle /\ MidiIdle

\* pipeline.py 45-46 and generate.py 35-44: the title, the prompt of the
\* generation calls, and the first attempt
Setup ==
    /\ pc = "setup"
    /\ \E targ \in TitleArgs :
          /\ title' = RunTitle(targ)
          /\ user_prompt' = UserPromptOf[motif, RunTitle(targ)]
    /\ attempt' = 1
    /\ pc' = "generate"
    /\ UNCHANGED <<fix_attempt, last_err, ly_code, ly_file, exc, error, genLog,
                   compLog, repairLog, writes, lastRun, motif,
                   fpc, src, out, out2, errors>>
    /\ UNCHANGED <<midiVars, runVars>>

\* faulty variant: the text is returned without asking the validator
GenerateOk_Unvalidated ==
    /\ pc = "generate" /\ attempt <= MaxGenerationAttempts
    /\ \E r \in Responses :
          /\ ly_code' = NormalizedOf[r, title]
          /\ genLog' = Append(genLog, [attempt |-> attempt, ok |-> TRUE,
                                       prompt |-> user_prompt,
                                       err |-> NoError])
    /\ pc' = "write"
    /\ UNCHANGED <<attempt, fix_attempt, last_err, ly_file, exc, error, compLog,
                   repairLog, writes, lastRun>>
    /\ UNCHANGED <<funVars, midiVars, motif, user_prompt, runVars>>

\* generate.py 49-62: the service answers and the validator accepts the text
GenerateOk ==
    /\ pc = "generate" /\ attempt <= MaxGenerationAttempts
    /\ \E r \in Responses :
          LET ly == NormalizedOf[r, title]
          IN  /\ ViolationsOf[r, title] = <<>>
              /\ ly_code' = ly
              /\ genLog' = Append(genLog, [attempt |-> attempt, ok |-> TRUE,
                                           prompt |-> user_prompt,
                                           err |-> NoError])
    /\ pc' = "write"
    /\ UNCHANGED <<attempt, fix_attempt, last_err, ly_file, exc, error, compLog,
                   repairLog, writes, lastRun>>
    /\ UNCHANGED <<funVars, midiVars, motif, user_prompt, runVars>>

\* faulty variant: a rejection leaves the loop instead of going on to the next attempt
GenerateRejected_NoRetry ==
    /\ pc = "generate" /\ attempt <= MaxGenerationAttempts
    /\ \E r \in Responses :
          LET errs == ViolationsOf[r, title]
          IN  /\ errs # <<>>
              /\ last_err' = ValidationError(errs)
              /\ error' = ValidationError(errs)
              /\ genLog' = Append(genLog, [attempt |-> attempt, ok |-> FALSE,
                                           prompt |-> user_prompt,
                                           err |-> ValidationError(errs)])
    /\ pc' = "fatal"
    /\ UNCHANGED <<attempt, fix_attempt, ly_code, ly_file, exc, compLog,
                   repairLog, writes, lastRun>>
    /\ UNCHANGED <<funVars, midiVars, motif, user_prompt, runVars>>

\* faulty variant: a rejection is retried without counting the attempt
GenerateRejected_NoCount ==
    /\ pc = "generate" /\ attempt <= MaxGenerationAttempts
    /\ \E r \in Responses :
          LET errs == ViolationsOf[r, title]
          IN  /\ errs # <<>>
              /\ last_err' = ValidationError(errs)
              /\ genLog' = Append(genLog, [attempt |-> attempt, ok |-> FALSE,
                                           prompt |-> user_prompt,
                                           err |-> ValidationError(errs)])
    /\ UNCHANGED <<pc, attempt, fix_attempt, ly_code, ly_file, exc, error, compLog,
                   repairLog, writes, lastRun>>
    /\ UNCHANGED <<funVars, midiVars, motif, user_prompt, runVars>>

\* generate.py 61, 63-65: the validator raises, the loop records it and goes on
GenerateRejected ==
    /\ pc = "generate" /\ attempt <= MaxGenerationAttempts
    /\ \E r \in Responses :
          LET errs == ViolationsOf[r, title]
          IN  /\ errs # <<>>
              /\ last_err' = ValidationError(errs)
              /\ genLog' = Append(genLog, [attempt |-> attempt, ok |-> FALSE,
                                           prompt |-> user_prompt,
                                           err |-> ValidationError(errs)])
    /\ attempt' = attempt + 1
    /\ UNCHANGED <<pc, fix_attempt, ly_code, ly_file, exc, error, compLog,
                   repairLog, writes, lastRun>>
    /\ UNCHANGED <<funVars, midiVars, motif, user_prompt, runVars>>

\* faulty variant: last_err keeps the first failure recorded
GenerateServiceError_KeepFirst ==
    /\ pc = "generate" /\ attempt <= MaxGenerationAttempts
    /\ \E k \in ServiceFailures :
          /\ last_err' = IF last_err = NoError THEN ServiceError(k) ELSE last_err
          /\ genLog' = Append(genLog, [attempt |-> attempt, ok |-> FALSE,
                                       prompt |-> user_prompt,
                                       err |-> ServiceError(k)])
    /\ attempt' = attempt + 1
    /\ UNCHANGED <<pc, fix_attempt, ly_code, ly_file, exc, error, compLog,
                   repairLog, writes, lastRun>>
    /\ UNCHANGED <<funVars, midiVars, motif, user_prompt, runVars>>

\* generate.py 51, 63-65: the service call raises, the loop records it and goes on
GenerateServiceError ==
    /\ pc = "generate" /\ attempt <= MaxGenerationAttempts
    /\ \E k \in ServiceFailures :
          /\ last_err' = ServiceError(k)
          /\ genLog' = Append(genLog, [attempt |-> attempt, ok |-> FALSE,
                                       prompt |-> user_prompt,
                                       err |-> ServiceError(k)])
    /\ attempt' = attempt + 1
    /\ UNCHANGED <<pc, fix_attempt, ly_code, ly_file, exc, error, compLog,
                   repairLog, writes, lastRun>>
    /\ UNCHANGED <<funVars, midiVars, motif, user_prompt, runVars>>

\* generate.py 67-69: the loop is over without a return
GenerateExhausted ==
    /\ pc = "generate" /\ attempt > MaxGenerationAttempts
    /\ error' = GenerationError(last_err)
    /\ pc' = "fatal"
    /\ UNCHANGED <<attempt, fix_attempt, last_err, ly_code, ly_file, exc, genLog,
                   compLog, repairLog, writes, lastRun>>
    /\ UNCHANGED <<funVars, midiVars, motif, user_prompt, runVars>>

\* pipeline.py 71-76, 83: write ly_path, enter the compile loop
WriteLy ==
    /\ pc = "write"
    /\ ly_file' = [exists |-> TRUE, text |-> ly_code]
    /\ writes' = writes + 1
    /\ fix_attempt' = 0
    /\ pc' = "compile"
    /\ UNCHANGED <<attempt, last_err, ly_code, exc, error, genLog, compLog,
                   repairLog, lastRun>>
    /\ UNCHANGED <<funVars, midiVars, motif, user_prompt, runVars>>

\* a compile attempt, as the history records it
\* (rc0: the exit status is 0; ok: compile_lilypond returned the artifacts)
CompileEntry(rc0, ok, run, stderr) ==
    [idx |-> fix_attempt, source |-> ly_file.text, rc0 |-> rc0, ok |-> ok,
     run |-> run, stderr |-> stderr]

\* faulty variant: no `break` after a successful compile
CompileOk_NoBreak ==
    /\ pc = "compile" /\ fix_attempt <= MaxCompileFixAttempts
    /\ \E s1 \in Stderrs :
          /\ lastRun' = RunCompiler(s1)
          /\ compLog' = Append(compLog, CompileEntry(TRUE, TRUE, lastRun.n + 1, s1))
    /\ \E f \in Artifacts :
          /\ ~CompiledArtifacts(Basename, f).raised
          /\ midi_raw' = CompiledArtifacts(Basename, f).midi
          /\ disk' = (CompiledArtifacts(Basename, f).midi :> CompiledMidi) @@ disk
    /\ fix_attempt' = fix_attempt + 1
    /\ pc' = IF fix_attempt < MaxCompileFixAttempts THEN "compile" ELSE "compiled"
    /\ UNCHANGED <<attempt, last_err, ly_code, ly_file, exc, error,
                   genLog, repairLog, writes>>
    /\ UNCHANGED <<funVars, midiVars, motif, user_prompt>>
    /\ UNCHANGED <<args, midi_for_audio, stages, outputs>>

\* pipeline.py 85-88, lilypond.py 103-128: the compiler exits with 0 and
\* leaves the PDF and the event stream (under one extension or both); the
\* loop is left
CompileOk ==
    /\ pc = "compile" /\ fix_attempt <= MaxCompileFixAttempts
    /\ \E s1 \in Stderrs :
          /\ lastRun' = RunCompiler(s1)
          /\ compLog' = Append(compLog, CompileEntry(TRUE, TRUE, lastRun.n + 1, s1))
    /\ \E f \in Artifacts :
          /\ ~CompiledArtifacts(Basename, f).raised
          /\ midi_raw' = CompiledArtifacts(Basename, f).midi
          /\ disk' = (CompiledArtifacts(Basename, f).midi :> CompiledMidi) @@ disk
    /\ pc' = "compiled"
    /\ UNCHANGED <<attempt, fix_attempt, last_err, ly_code, ly_file, exc, error,
                   genLog, repairLog, writes>>
    /\ UNCHANGED <<funVars, midiVars, motif, user_prompt>>
    /\ UNCHANGED <<args, midi_for_audio, stages, outputs>>

\* faulty variant: a missing artifact is handled like a failed compile
CompileArtifactMissing_AsCompileFailure ==
    /\ pc = "compile" /\ fix_attempt <= MaxCompileFixAttempts
    /\ \E s1 \in Stderrs :
          /\ lastRun' = RunCompiler(s1)
          /\ compLog' = Append(compLog, CompileEntry(TRUE, FALSE, lastRun.n + 1, s1))
          /\ exc' = CompileError(s1)
    /\ \E f \in Artifacts : CompiledArtifacts(Basename, f).raised
    /\ pc' = "handler"
    /\ UNCHANGED <<attempt, fix_attempt, last_err, ly_code, ly_file, error,
                   genLog, repairLog, writes>>
    /\ UNCHANGED <<funVars, midiVars, motif, user_prompt, runVars>>

\* lilypond.py 115-126: the compiler exits with 0 and the PDF, or the MIDI
\* under both extensions, is missing: FileNotFoundError, which the handler of
\* the compile loop (pipeline.py 89) does not catch
CompileArtifactMissing ==
    /\ pc = "compile" /\ fix_attempt <= MaxCompileFixAttempts
    /\ \E s1 \in Stderrs :
          /\ lastRun' = RunCompiler(s1)
          /\ compLog' = Append(compLog, CompileEntry(TRUE, FALSE, lastRun.n + 1, s1))
    /\ \E f \in Artifacts :
          /\ CompiledArtifacts(Basename, f).raised
          /\ error' = CompiledArtifacts(Basename, f).error
    /\ pc' = "fatal"
    /\ UNCHANGED <<attempt, fix_attempt, last_err, ly_code, ly_file, exc,
                   genLog, repairLog, writes>>
    /\ UNCHANGED <<funVars, midiVars, motif, user_prompt, runVars>>

\* lilypond.py 107-113: the compiler exits with a nonzero status (stderr s1, in
\* proc, is not looked at); it is run again to capture stderr (s2), which the
\* exception carries; pipeline.py 89 catches it
CompileFail ==
    /\ pc = "compile" /\ fix_attempt <= MaxCompileFixAttempts
    /\ \E s1, s2 \in Stderrs :
          /\ lastRun' = [n |-> lastRun.n + 2, stderr |-> s2]
          /\ compLog' = Append(compLog, CompileEntry(FALSE, FALSE, lastRun.n + 1, s1))
          /\ exc' = CompileError(s2)
    /\ pc' = "handler"
    /\ UNCHANGED <<attempt, fix_attempt, last_err, ly_code, ly_file, error,
                   genLog, repairLog, writes>>
    /\ UNCHANGED <<funVars, midiVars, motif, user_prompt, runVars>>

\* faulty variant: the final error carries the stderr the exception already held
HandlerFinal_StaleStderr ==
    /\ pc = "handler" /\ fix_attempt >= MaxCompileFixAttempts
    /\ \E s3 \in Stderrs :
          /\ lastRun' = RunCompiler(s3)
          /\ error' = CompileFinalError(exc, exc.stderr)
    /\ pc' = "fatal"
    /\ UNCHANGED <<attempt, fix_attempt, last_err, ly_code, ly_file, exc, genLog,
                   compLog, repairLog, writes>>
    /\ UNCHANGED <<funVars, midiVars, motif, user_prompt, runVars>>

\* pipeline.py 94-103: the handler runs the compiler once more (stderr s3);
\* this was the last permitted attempt
HandlerFinal ==
    /\ pc = "handler" /\ fix_attempt >= MaxCompileFixAttempts
    /\ \E s3 \in Stderrs :
          /\ lastRun' = RunCompiler(s3)
          /\ error' = CompileFinalError(exc, s3)
    /\ pc' = "fatal"
    /\ UNCHANGED <<attempt, fix_attempt, last_err, ly_code, ly_file, exc, genLog,
                   compLog, repairLog, writes>>
    /\ UNCHANGED <<funVars, midiVars, motif, user_prompt, runVars>>

\* a repair call, as the history records it: what fix_sonata_lilypond was
\* given (the text read from ly_path, the stderr of compiler run `run`), the
\* excerpt it put in the prompt, and how it ended
RepairEntry(s3, result, fixed) ==
    [idx |-> fix_attempt, broken |-> ly_file.text, run |-> lastRun.n + 1,
     stderr |-> s3, excerpt |-> Excerpt(s3), result |-> result, fixed |-> fixed]

\* faulty variant: the repaired text is not written to ly_path
HandlerRepairOk_NoWrite ==
    /\ pc = "handler" /\ fix_attempt < MaxCompileFixAttempts
    /\ \E s3 \in Stderrs, r \in Responses :
          LET fixed == NormalizedOf[r, title]
          IN  /\ ViolationsOf[r, title] = <<>>
              /\ lastRun' = RunCompiler(s3)
              /\ repairLog' = Append(repairLog, RepairEntry(s3, "ok", fixed))
    /\ fix_attempt' = fix_attempt + 1
    /\ pc' = "compile"
    /\ UNCHANGED <<attempt, last_err, ly_code, ly_file, exc, error, genLog,
                   compLog, writes>>
    /\ UNCHANGED <<funVars, midiVars, motif, user_prompt, runVars>>

\* pipeline.py 94-109, generate.py 81-105: the handler runs the compiler once
\* more (stderr s3), the repair call answers, the validator accepts the text,
\* ly_path is rewritten and the loop goes on
HandlerRepairOk ==
    /\ pc = "handler" /\ fix_attempt < MaxCompileFixAttempts
    /\ \E s3 \in Stderrs, r \in Responses :
          LET fixed == NormalizedOf[r, title]
          IN  /\ ViolationsOf[r, title] = <<>>
              /\ lastRun' = RunCompiler(s3)
              /\ repairLog' = Append(repairLog, RepairEntry(s3, "ok", fixed))
              /\ ly_file' = [exists |-> TRUE, text |-> fixed]
    /\ writes' = writes + 1
    /\ fix_attempt' = fix_attempt + 1
    /\ pc' = "compile"
    /\ UNCHANGED <<attempt, last_err, ly_code, exc, error, genLog, compLog>>
    /\ UNCHANGED <<funVars, midiVars, motif, user_prompt, runVars>>

\* faulty variant: the repair output is written and compiled without validation
HandlerRepairRejected_Persist ==
    /\ pc = "handler" /\ fix_attempt < MaxCompileFixAttempts
    /\ \E s3 \in Stderrs, r \in Responses :
          LET fixed == NormalizedOf[r, title]
              errs == ViolationsOf[r, title]
          IN  /\ errs # <<>>
              /\ lastRun' = RunCompiler(s3)
              /\ repairLog' = Append(repairLog, RepairEntry(s3, "rejected", fixed))
              /\ ly_file' = [exists |-> TRUE, text |-> fixed]
    /\ writes' = writes + 1
    /\ fix_attempt' = fix_attempt + 1
    /\ pc' = "compile"
    /\ UNCHANGED <<attempt, last_err, ly_code, exc, error, genLog, compLog>>
    /\ UNCHANGED <<funVars, midiVars, motif, user_prompt, runVars>>

\* generate.py 104: the validator raises inside the handler: nothing catches it
HandlerRepairRejected ==
    /\ pc = "handler" /\ fix_attempt < MaxCompileFixAttempts
    /\ \E s3 \in Stderrs, r \in Responses :
          LET fixed == NormalizedOf[r, title]
              errs == ViolationsOf[r, title]
          IN  /\ errs # <<>>
              /\ lastRun' = RunCompiler(s3)
              /\ repairLog' = Append(repairLog, RepairEntry(s3, "rejected", fixed))
              /\ error' = ValidationError(errs)
    /\ pc' = "fatal"
    /\ UNCHANGED <<attempt, fix_attempt, last_err, ly_code, ly_file, exc, genLog,
                   compLog, writes>>
    /\ UNCHANGED <<funVars, midiVars, motif, user_prompt, runVars>>

\* generate.py 93: the service call raises inside the handler: nothing catches it
HandlerRepairServiceError ==
    /\ pc = "handler" /\ fix_attempt < MaxCompileFixAttempts
    /\ \E s3 \in Stderrs, k \in ServiceFailures :
          /\ lastRun' = RunCompiler(s3)
          /\ repairLog' = Append(repairLog, RepairEntry(s3, "raised", <<>>))
          /\ error' = ServiceError(k)
    /\ pc' = "fatal"
    /\ UNCHANGED <<attempt, fix_attempt, last_err, ly_code, ly_file, exc, genLog,
                   compLog, writes>>
    /\ UNCHANGED <<funVars, midiVars, motif, user_prompt, runVars>>

Next ==
    \/ Setup
    \/ GenerateOk \/ GenerateRejected \/ GenerateServiceError \/ GenerateExhausted
    \/ WriteLy
    \/ CompileOk \/ CompileArtifactMissing \/ CompileFail
    \/ HandlerFinal \/ HandlerRepairOk \/ HandlerRepairRejected
    \/ HandlerRepairServiceError

Spec == Init /\ [][Next]_vars

-----------------------------------------------------------------------------
(* midi.py: an event stream is a file [ticks_per_beat, tracks], a track a  *)
(* sequence of messages [type, channel, note, velocity, time]              *)

\* midi.py 23: a pitch below middle C counts as low
MiddleC == 60
\* midi.py 98: the range a written velocity is held in
VelocityMin == 1
VelocityMax == 127

RECURSIVE Flatten(_)
\* `for track in mid.tracks: for msg in track`: the messages in reading order
Flatten(tracks) ==
    IF tracks = <<>> THEN <<>> ELSE Head(tracks) \o Flatten(Tail(tracks))

\* faulty variant: a note-start of velocity 0 is counted too
IsNoteStart_AnyVelocity(msg) == msg.type = "note_on"

\* msg.type == "note_on" and msg.velocity > 0
IsNoteStart(msg) == msg.type = "note_on" /\ msg.velocity > 0

\* faulty variant: middle C itself counts as low
IsLow_Inclusive(note) == note <= MiddleC

IsLow(note) == note < MiddleC

\* stats[ch] of a channel seen for the first time
NewStats(ch) == [ch |-> ch, low |-> 0, high |-> 0, total |-> 0]

\* one turn of the loop body for a counted message: the dict keeps its
\* insertion order, so a new channel goes to the end
Count(stats, msg) ==
    LET known == \E i \in 1..Len(stats) : stats[i].ch = msg.channel
        st == IF known THEN stats ELSE Append(stats, NewStats(msg.channel))
    IN  [i \in 1..Len(st) |->
            IF st[i].ch # msg.channel THEN st[i]
            ELSE [ch |-> st[i].ch,
                  low |-> st[i].low + (IF IsLow(msg.note) THEN 1 ELSE 0),
                  high |-> st[i].high + (IF IsLow(msg.note) THEN 0 ELSE 1),
                  total |-> st[i].total + 1]]

RECURSIVE StatsLoop(_, _)
StatsLoop(msgs, stats) ==
    IF msgs = <<>> THEN stats
    ELSE StatsLoop(Tail(msgs),
                   IF IsNoteStart(Head(msgs)) THEN Count(stats, Head(msgs))
                   ELSE stats)

\* faulty variant: only the first track is read
channel_pitch_stats_FirstTrack(m) ==
    StatsLoop(IF m.tracks = <<>> THEN <<>> ELSE Head(m.tracks), <<>>)

\* _channel_pitch_stats: the dict as the sequence of its items
channel_pitch_stats(m) == StatsLoop(Flatten(m.tracks), <<>>)

\* the sort keys, and the order of Python tuples
LowKey(st) == <<st.low, st.total>>
HighKey(st) == <<st.high, st.total>>
KeyLess(a, b) == a[1] < b[1] \/ (a[1] = b[1] /\ a[2] < b[2])

\* max(stats.items(), key=...): the first item that no item exceeds, the
\* key being LowKey (by_low) or HighKey
MaxBy(stats, by_low) ==
    LET key(st) == IF by_low THEN LowKey(st) ELSE HighKey(st)
        best == {i \in 1..Len(stats) :
                    \A j \in 1..Len(stats) : ~KeyLess(key(stats[i]), key(stats[j]))}
    IN  stats[CHOOSE i \in best : \A j \in best : i <= j]

\* where a stable descending sort puts x among the sorted items before it
InsertByHigh(sorted, x) ==
    LET below == {i \in 1..Len(sorted) : KeyLess(HighKey(sorted[i]), HighKey(x))}
        at == IF below = {} THEN Len(sorted) + 1
              ELSE CHOOSE i \in below : \A j \in below : i <= j
    IN  SubSeq(sorted, 1, at - 1) \o <<x>> \o SubSeq(sorted, at, Len(sorted))

RECURSIVE sorted_by_high(_)
\* sorted(stats.items(), key=(high, total), reverse=True): equal items keep
\* their order
sorted_by_high(stats) ==
    IF stats = <<>> THEN <<>>
    ELSE InsertByHigh(sorted_by_high(SubSeq(stats, 1, Len(stats) - 1)),
                      stats[Len(stats)])

\* faulty variant: the high voice is not chosen again when both picks coincide
guess_lh_rh_channels_NoReselect(m) ==
    LET stats == channel_pitch_stats(m)
    IN  IF stats = <<>> THEN <<None, None>>
        ELSE <<MaxBy(stats, TRUE).ch, MaxBy(stats, FALSE).ch>>

guess_lh_rh_channels(m) ==
    LET stats == channel_pitch_stats(m)
    IN  IF stats = <<>> THEN <<None, None>>
        ELSE LET lh == MaxBy(stats, TRUE).ch
                 rh == MaxBy(stats, FALSE).ch
                 others == SelectSeq(sorted_by_high(stats), LAMBDA st : st.ch # lh)
             IN  IF rh = lh /\ Len(stats) > 1 THEN <<lh, others[1].ch>>
                 ELSE <<lh, rh>>

\* round(): to the nearest integer, a tie to the even one; a / b with b > 0
RoundHalfEven(a, b) ==
    LET q == a \div b
        r == a % b
    IN  IF 2 * r < b THEN q
        ELSE IF 2 * r > b THEN q + 1
        ELSE IF q % 2 = 0 THEN q ELSE q + 1

\* int(round(msg.velocity * scale)), the scale being the fraction num / den
Scaled(v, scale) == RoundHalfEven(v * scale.num, scale.den)

\* faulty variant: no lower limit
Clamp_NoFloor(v) == IF v > VelocityMax THEN VelocityMax ELSE v

\* max(1, min(127, v))
Clamp(v) ==
    LET m == IF v < VelocityMax THEN v ELSE VelocityMax
    IN  IF m > VelocityMin THEN m ELSE VelocityMin

\* faulty variant: the two scales change places
NewVelocity_Swapped(msg, lh_ch, rh_ch, ls, rs) ==
    LET ch == msg.channel
    IN  Clamp(IF ch # None /\ lh_ch # None /\ ch = lh_ch
              THEN Scaled(msg.velocity, rs)
              ELSE IF ch # None /\ rh_ch # None /\ ch = rh_ch
                   THEN Scaled(msg.velocity, ls)
                   ELSE msg.velocity)

\* faulty variant: the high voice is tested before the low voice
NewVelocity_HighFirst(msg, lh_ch, rh_ch, ls, rs) ==
    LET ch == msg.channel
    IN  Clamp(IF ch # None /\ rh_ch # None /\ ch = rh_ch
              THEN Scaled(msg.velocity, rs)
              ELSE IF ch # None /\ lh_ch # None /\ ch = lh_ch
                   THEN Scaled(msg.velocity, ls)
                   ELSE msg.velocity)

\* midi.py 90-98: the velocity written for a note-start
NewVelocity(msg, lh_ch, rh_ch, ls, rs) ==
    LET ch == msg.channel
    IN  Clamp(IF ch # None /\ lh_ch # None /\ ch = lh_ch
              THEN Scaled(msg.velocity, ls)
              ELSE IF ch # None /\ rh_ch # None /\ ch = rh_ch
                   THEN Scaled(msg.velocity, rs)
                   ELSE msg.velocity)

\* faulty variant: every note_on message is rescaled, velocity 0 included
BalanceMsg_AllNoteOn(msg, lh_ch, rh_ch, ls, rs) ==
    IF msg.type = "note_on"
    THEN [msg EXCEPT !.velocity = NewVelocity(msg, lh_ch, rh_ch, ls, rs)]
    ELSE msg

\* midi.py 89-101: msg.copy(velocity=v) for a note-start, msg.copy() otherwise
BalanceMsg(msg, lh_ch, rh_ch, ls, rs) ==
    IF msg.type = "note_on" /\ msg.velocity > 0
    THEN [msg EXCEPT !.velocity = NewVelocity(msg, lh_ch, rh_ch, ls, rs)]
    ELSE msg

\* faulty variant: the new file is made with the library's default time base
OutFile_DefaultTimeBase(m, tracks) == [ticks_per_beat |-> 480, tracks |-> tracks]

\* midi.py 84: mido.MidiFile(ticks_per_beat=mid.ticks_per_beat), then the tracks
OutFile(m, tracks) == [ticks_per_beat |-> m.ticks_per_beat, tracks |-> tracks]

\* balance_midi_velocities: the file it saves and the pair it returns
balance_midi_velocities(m, ls, rs) ==
    LET g == guess_lh_rh_channels(m)
        new_track(track) ==
            [i \in 1..Len(track) |-> BalanceMsg(track[i], g[1], g[2], ls, rs)]
    IN  [saved |-> OutFile(m, [t \in 1..Len(m.tracks) |-> new_track(m.tracks[t])]),
         value |-> g]

(* Drawn event streams *)

NoteOn(ch, n, v) ==
    [type |-> "note_on", channel |-> ch, note |-> n, velocity |-> v, time |-> 0]
NoteOff(ch, n) ==
    [type |-> "note_off", channel |-> ch, note |-> n, velocity |-> 64, time |-> 0]

\* the longest stream drawn for the classifier, and for the rebalancer
MaxGuessEvents == 4
MaxBalanceEvents == 3

Channels == 0..2

\* for the classifier: a low and a high sounding note on each channel, a
\* note-start of velocity 0 and a note end
GuessPool ==
    {NoteOn(ch, n, 64) : ch \in Channels, n \in {MiddleC - 1, MiddleC}}
    \cup {NoteOn(2, MiddleC - 1, 0), NoteOff(1, MiddleC)}

\* for the rebalancer: channel 0 plays low, channels 1 and 2 high, at the
\* velocities whose products reach 0, a tie, and more than 127
BalanceVelocities == {0, 1, 5, 120}
PitchOf(ch) == IF ch = 0 THEN 40 ELSE 70 + ch
BalancePool ==
    {NoteOn(0, PitchOf(0), v) : v \in BalanceVelocities}
    \cup {NoteOn(1, PitchOf(1), 5), NoteOn(1, PitchOf(1), 120)}
    \cup {NoteOn(2, PitchOf(2), 5), NoteOff(0, PitchOf(0))}

\* scales whose products a float holds exactly: 0.5, 1.0 and 2.0
Scales == {[num |-> 1, den |-> 2], [num |-> 1, den |-> 1], [num |-> 2, den |-> 1]}
One == [num |-> 1, den |-> 1]

\* the time base LilyPond writes
TimeBases == {384}

\* delta times that tell the positions apart
Stamp(msgs) == [i \in 1..Len(msgs) |-> [msgs[i] EXCEPT !.time = i]]

\* the messages as one track, or (two messages and more) cut after the first
TracksOf(msgs) ==
    {<<msgs>>} \cup (IF Len(msgs) >= 2
                     THEN {<<SubSeq(msgs, 1, 1), SubSeq(msgs, 2, Len(msgs))>>}
                     ELSE {})

\* m is a file of at most n messages of the pool
IsMidiFile(m, pool, n) ==
    \E k \in 0..n : \E msgs \in [1..k -> pool] :
        \E t \in TracksOf(Stamp(msgs)) : \E b \in TimeBases :
            m = [ticks_per_beat |-> b, tracks |-> t]

-----------------------------------------------------------------------------
(* SpecGuess: guess_lh_rh_channels applied to a drawn event stream         *)

InitGuess ==
    /\ PipeIdle /\ FunIdle
    /\ mpc = "input" /\ IsMidiFile(mid, GuessPool, MaxGuessEvents)
    /\ left_scale = NoScale /\ right_scale = NoScale
    /\ guessed = <<None, None>> /\ outmid = NoMidi /\ returned = <<None, None>>

Guess ==
    /\ mpc = "input"
    /\ guessed' = guess_lh_rh_channels(mid)
    /\ mpc' = "guessed"
    /\ UNCHANGED <<mid, left_scale, right_scale, outmid, returned>>
    /\ UNCHANGED <<pipeVars, funVars>>

NextGuess == Guess

SpecGuess == InitGuess /\ [][NextGuess]_vars

-----------------------------------------------------------------------------
(* SpecBalance: balance_midi_velocities applied to a drawn event stream    *)
(* with drawn scales                                                       *)

InitBalance ==
    /\ PipeIdle /\ FunIdle
    /\ mpc = "input" /\ IsMidiFile(mid, BalancePool, MaxBalanceEvents)
    /\ left_scale = NoScale /\ right_scale = NoScale
    /\ guessed = <<None, None>> /\ outmid = NoMidi /\ returned = <<None, None>>

Balance ==
    /\ mpc = "input"
    /\ \E ls \in Scales, rs \in Scales :
          LET b == balance_midi_velocities(mid, ls, rs)
          IN  /\ left_scale' = ls /\ right_scale' = rs
              /\ outmid' = b.saved
              /\ returned' = b.value
    /\ mpc' = "balanced"
    /\ UNCHANGED <<mid, guessed>>
    /\ UNCHANGED <<pipeVars, funVars>>

NextBalance == Balance

SpecBalance == InitBalance /\ [][NextBalance]_vars

-----------------------------------------------------------------------------
(* SpecRun: cli.main as a whole: the checks of the command line, then      *)
(* build_outputs with its render stages after the compile+repair loop      *)

\* the command lines of a run: two that main accepts (with and without
\* balancing), and one for each check that rejects
RunArgs ==
    {GoodArgs,
     [GoodArgs EXCEPT !.no_midi_balance = TRUE],
     [GoodArgs EXCEPT !.soundfont = NoPath],
     [GoodArgs EXCEPT !.name = <<".", "o">>],
     [GoodArgs EXCEPT !.name = <<"o", "/", "u">>],
     [GoodArgs EXCEPT !.name = <<"o", SP, "u">>],
     [GoodArgs EXCEPT !.lh_scale = [num |-> 0, den |-> 1]],
     [GoodArgs EXCEPT !.rh_scale = [num |-> -1, den |-> 2]],
     [GoodArgs EXCEPT !.fluidsynth_gain = GainMin - 1],
     [GoodArgs EXCEPT !.fluidsynth_gain = GainMax + 1]}

\* what the motif file holds, when it is there
RunMotifs == {Mo_keyOnly}

\* the programs that may be missing from PATH
MissingTools == {{}, {"lilypond"}, {"fluidsynth", "ffmpeg"}}

\* exit statuses of a render program
ExitStatuses == {0, 1}

InitRun ==
    /\ pc = "main" /\ attempt = 0 /\ fix_attempt = 0
    /\ last_err = NoError /\ ly_code = <<>> /\ ly_file = NoFile
    /\ exc = NoError /\ error = NoError
    /\ genLog = <<>> /\ compLog = <<>> /\ repairLog = <<>> /\ writes = 0
    /\ lastRun = NoRun
    /\ motif = <<>> /\ user_prompt = NoPrompt
    /\ args \in RunArgs /\ midi_raw = NoPath /\ midi_for_audio = NoPath
    /\ disk = NoDisk /\ stages = <<>> /\ outputs = NoOutputs
    /\ FunIdle /\ MidiIdle

\* cli.py 116-150: the checks, the motif file, the programs; then main calls
\* build_outputs (162), or returns 2, or read_text raises
Main ==
    /\ pc = "main"
    /\ \E motif_found \in BOOLEAN, missing \in MissingTools, m \in RunMotifs :
          LET o == MainOutcome(args, motif_found, missing)
          IN  /\ pc' = o.pc
              /\ error' = o.error
              /\ motif' = IF o.read THEN m ELSE motif
    /\ UNCHANGED <<attempt, fix_attempt, last_err, ly_code, ly_file, exc, genLog,
                   compLog, repairLog, writes, lastRun, user_prompt>>
    /\ UNCHANGED <<funVars, midiVars, runVars>>

\* pipeline.py 115: midi_mix
MidiMixPath(b) == b \o K_mixSuffix

\* the file balance_midi_velocities saves, tabulated over the compiled stream
\* and the scales
BalancedOf ==
    [m \in {CompiledMidi}, ls \in Scales, rs \in Scales |->
        balance_midi_velocities(m, ls, rs).saved]

\* faulty variant: the file is balanced although --no-midi-balance is given
BalanceMidi_Always ==
    /\ pc = "compiled"
    /\ disk' = (MidiMixPath(Basename) :>
                   BalancedOf[disk[midi_raw], args.lh_scale, args.rh_scale]) @@ disk
    /\ midi_for_audio' = MidiMixPath(Basename)
    /\ pc' = "wav"
    /\ UNCHANGED <<attempt, fix_attempt, last_err, ly_code, ly_file, exc, error,
                   genLog, compLog, repairLog, writes, lastRun, motif, user_prompt>>
    /\ UNCHANGED <<funVars, midiVars, args, midi_raw, stages, outputs>>

\* pipeline.py 111-130: with --no-midi-balance the raw file is the one for
\* audio; otherwise balance_midi_velocities reads midi_raw and saves midi_mix
BalanceMidi ==
    /\ pc = "compiled"
    /\ IF args.no_midi_balance
       THEN /\ midi_for_audio' = midi_raw
            /\ disk' = disk
       ELSE /\ disk' = (MidiMixPath(Basename) :>
                           BalancedOf[disk[midi_raw], args.lh_scale,
                                      args.rh_scale]) @@ disk
            /\ midi_for_audio' = MidiMixPath(Basename)
    /\ pc' = "wav"
    /\ UNCHANGED <<attempt, fix_attempt, last_err, ly_code, ly_file, exc, error,
                   genLog, compLog, repairLog, writes, lastRun, motif, user_prompt>>
    /\ UNCHANGED <<funVars, midiVars, args, midi_raw, stages, outputs>>

\* a run of a render program, as the history records it
StageEntry(program, input, rc) == [program |-> program, input |-> input, rc |-> rc]

StageError(program) ==
    [type |-> "SonataGenerationError", what |-> "render", program |-> program]

\* what a render stage leaves behind: the program has run with `rc` and has
\* (or has not) `produced` its output; `missing` is the FileNotFoundError of
\* the stage for an absent output, NoError if the stage does not look
StageEnd(program, input, rc, produced, missing, next) ==
    /\ stages' = Append(stages, StageEntry(program, input, rc))
    /\ IF rc # 0
       THEN pc' = "fatal" /\ error' = StageError(program)
       ELSE IF ~produced /\ missing # NoError
       THEN pc' = "fatal" /\ error' = missing
       ELSE pc' = next /\ error' = error

\* faulty variant: a failed fluidsynth run is followed by the next stage
MidiToWav_GoOn ==
    /\ pc = "wav"
    /\ \E rc \in ExitStatuses :
          /\ stages' = Append(stages, StageEntry("fluidsynth",
                                                 [path |-> midi_for_audio,
                                                  content |-> disk[midi_for_audio]], rc))
    /\ pc' = "png"
    /\ UNCHANGED <<attempt, fix_attempt, last_err, ly_code, ly_file, exc, error, genLog,
                   compLog, repairLog, writes, lastRun, motif, user_prompt>>
    /\ UNCHANGED <<funVars, midiVars, args, midi_raw, midi_for_audio, disk, outputs>>

\* pipeline.py 133-142, render.py 26-42: the SoundFont is looked for, then
\* fluidsynth reads midi_for_audio
MidiToWav ==
    /\ pc = "wav"
    /\ \E found \in BOOLEAN, rc \in ExitStatuses :
          IF ~found
          THEN /\ pc' = "fatal" /\ error' = FileNotFound("soundfont")
               /\ stages' = stages
          ELSE StageEnd("fluidsynth",
                        [path |-> midi_for_audio, content |-> disk[midi_for_audio]],
                        rc, TRUE, NoError, "png")
    /\ UNCHANGED <<attempt, fix_attempt, last_err, ly_code, ly_file, exc, genLog,
                   compLog, repairLog, writes, lastRun, motif, user_prompt>>
    /\ UNCHANGED <<funVars, midiVars, args, midi_raw, midi_for_audio, disk, outputs>>

\* pipeline.py 145-146, render.py 69-85: pdftoppm reads the PDF; no page
\* image found afterwards is a FileNotFoundError
PdfToPngs ==
    /\ pc = "png"
    /\ \E rc \in ExitStatuses, produced \in BOOLEAN :
          StageEnd("pdftoppm", Basename \o K_extPdf, rc, produced,
                   FileNotFound("pages"), "sheet")
    /\ UNCHANGED <<attempt, fix_attempt, last_err, ly_code, ly_file, exc, genLog,
                   compLog, repairLog, writes, lastRun, motif, user_prompt>>
    /\ UNCHANGED <<funVars, midiVars, args, midi_raw, midi_for_audio, disk, outputs>>

\* pipeline.py 149-152, render.py 104-114: magick joins the page images; no
\* sheet afterwards is a FileNotFoundError
MakeContactSheet ==
    /\ pc = "sheet"
    /\ \E rc \in ExitStatuses, produced \in BOOLEAN :
          StageEnd("magick", "pages", rc, produced, FileNotFound("sheet"), "mp4")
    /\ UNCHANGED <<attempt, fix_attempt, last_err, ly_code, ly_file, exc, genLog,
                   compLog, repairLog, writes, lastRun, motif, user_prompt>>
    /\ UNCHANGED <<funVars, midiVars, args, midi_raw, midi_for_audio, disk, outputs>>

\* pipeline.py 155-177, render.py 151-156: ffmpeg joins the sheet and the
\* waveform; then build_outputs returns the paths
MakeMp4 ==
    /\ pc = "mp4"
    /\ \E rc \in ExitStatuses :
          /\ StageEnd("ffmpeg", "sheet+wav", rc, TRUE, NoError, "done")
          /\ outputs' =
                IF rc # 0 THEN outputs
                ELSE [type |-> "dict", midi_raw |-> midi_raw,
                      midi_mix |-> IF args.no_midi_balance THEN NoPath
                                   ELSE MidiMixPath(Basename),
                      midi_used_for_audio |-> midi_for_audio]
    /\ UNCHANGED <<attempt, fix_attempt, last_err, ly_code, ly_file, exc, genLog,
                   compLog, repairLog, writes, lastRun, motif, user_prompt>>
    /\ UNCHANGED <<funVars, midiVars, args, midi_raw, midi_for_audio, disk>>

NextRun ==
    \/ Main
    \/ Next
    \/ BalanceMidi \/ MidiToWav \/ PdfToPngs \/ MakeContactSheet \/ MakeMp4

SpecRun == InitRun /\ [][NextRun]_vars

\* the run under the condition that every call returns: main is sequential
\* code, so a step that can be taken is taken
SpecRunFair == InitRun /\ [][NextRun]_vars /\ WF_vars(NextRun)

-----------------------------------------------------------------------------
(* SpecCli: the checks of main applied to drawn command lines              *)

\* the longest --name drawn
MaxNameLen == 2

\* a letter outside ASCII
EA == "E_ACUTE"

\* a lower-case and an upper-case letter, a digit, the three marks the
\* pattern allows after the first character, the separators, a space, a
\* newline and a letter outside ASCII
NameChars == {"a", "Z", "7", ".", "_", "-", "/", BS, SP, NL, EA}
Names == UNION {[1..k -> NameChars] : k \in 0..MaxNameLen}

\* scales: -0.5, 0, 0.5, 2.0; gains (hundredths) around the two limits
CliScales ==
    {[num |-> -1, den |-> 2], [num |-> 0, den |-> 1],
     [num |-> 1, den |-> 2], [num |-> 2, den |-> 1]}
CliGains == {0, GainMin - 1, GainMin, 70, GainMax, GainMax + 1}

\* every name with the other arguments good, and every scale and gain with
\* a good and with a bad name
CliArgs ==
    {[GoodArgs EXCEPT !.name = n] : n \in Names}
    \cup {[GoodArgs EXCEPT !.name = n, !.lh_scale = l, !.rh_scale = r,
                           !.fluidsynth_gain = g] :
            n \in {Basename, <<"_", "a">>, <<"a", SP>>},
            l \in CliScales, r \in CliScales, g \in CliGains}
    \cup {[GoodArgs EXCEPT !.soundfont = NoPath, !.name = n] :
            n \in {Basename, <<>>}}

InitCli ==
    /\ pc = "main" /\ attempt = 0 /\ fix_attempt = 0
    /\ last_err = NoError /\ ly_code = <<>> /\ ly_file = NoFile
    /\ exc = NoError /\ error = NoError
    /\ genLog = <<>> /\ compLog = <<>> /\ repairLog = <<>> /\ writes = 0
    /\ lastRun = NoRun
    /\ motif = <<>> /\ user_prompt = NoPrompt
    /\ args \in CliArgs /\ midi_raw = NoPath /\ midi_for_audio = NoPath
    /\ disk = NoDisk /\ stages = <<>> /\ outputs = NoOutputs
    /\ FunIdle /\ MidiIdle

NextCli == Main

SpecCli == InitCli /\ [][NextCli]_vars

-----------------------------------------------------------------------------
(* Claims about the pipeline                                               *)

Last(log) == log[Len(log)]

\* C1: generation attempts are numbered 1..max_generation_attempts and made
\* one after another; every attempt but the latest has failed (no call follows
\* a success); after a failed attempt with one remaining the run stands at the
\* next attempt; after a success the loop is left.
C1_GenerationLoop ==
    /\ Len(genLog) <= MaxGenerationAttempts
    /\ \A i \in 1..Len(genLog) : genLog[i].attempt = i
    /\ \A i \in 1..(Len(genLog) - 1) : ~genLog[i].ok
    /\ (genLog # <<>> /\ ~Last(genLog).ok /\ Len(genLog) < MaxGenerationAttempts)
          => (pc = "generate" /\ attempt = Len(genLog) + 1)
    /\ (genLog # <<>> /\ Last(genLog).ok) => pc # "generate"

\* a failed first attempt was followed by a second one, which succeeded
C1_Witness ==
    /\ Len(genLog) = 2 /\ ~genLog[1].ok /\ genLog[2].ok
    /\ pc = "write"

AllGenerationFailed ==
    /\ Len(genLog) = MaxGenerationAttempts
    /\ \A i \in 1..Len(genLog) : ~genLog[i].ok

\* C2: when all max_generation_attempts attempts have failed the run ends with
\* the fatal generation error carrying the failure of the last attempt; the
\* Score Source file is not written and the compiler is not run.
C2_GenerationExhausted ==
    AllGenerationFailed =>
        /\ pc \in {"generate", "fatal"}
        /\ pc = "generate" => ENABLED GenerateExhausted
        /\ pc = "fatal" => error = GenerationError(Last(genLog).err)
        /\ ~ly_file.exists /\ writes = 0
        /\ compLog = <<>> /\ repairLog = <<>> /\ lastRun.n = 0

\* the run ended so, the two attempts having failed differently
C2_Witness ==
    /\ AllGenerationFailed /\ pc = "fatal"
    /\ genLog[1].err # genLog[2].err
    /\ error.what = "generation" /\ error.last = genLog[2].err

\* C3: at most max_compile_fix_attempts + 1 compile attempts and at most
\* max_compile_fix_attempts repair calls; every compile attempt but the latest
\* has failed, and a successful compile is followed by no repair call.
C3_CompileLoopBounded ==
    /\ Len(compLog) <= MaxCompileFixAttempts + 1
    /\ Len(repairLog) <= MaxCompileFixAttempts
    /\ \A i \in 1..Len(compLog) : compLog[i].idx = i - 1
    /\ \A i \in 1..(Len(compLog) - 1) : ~compLog[i].rc0
    /\ Len(repairLog) <= Len(compLog)
    /\ (compLog # <<>> /\ Last(compLog).rc0)
          => (Len(repairLog) = Len(compLog) - 1 /\ pc \in {"compiled", "fatal"})

\* the last permitted compile attempt succeeded, after two repairs
C3_Witness ==
    /\ Len(compLog) = MaxCompileFixAttempts + 1
    /\ Last(compLog).ok
    /\ Len(repairLog) = MaxCompileFixAttempts
    /\ pc = "compiled"

LastAttemptFailed ==
    /\ Len(compLog) = MaxCompileFixAttempts + 1
    /\ ~Last(compLog).rc0

\* C4: when the compile attempt with index max_compile_fix_attempts fails, the
\* run ends with the fatal compile error carrying the stderr of the compiler's
\* final run; no repair call is made for it and the file is not rewritten.
C4_LastCompileFailureFatal ==
    LastAttemptFailed =>
        /\ pc \in {"handler", "fatal"}
        /\ pc = "handler" => (ENABLED HandlerFinal /\ ~ENABLED HandlerRepairOk)
        /\ pc = "fatal" =>
              /\ error.type = "SonataGenerationError"
              /\ error.what = "compile_final"
              /\ error.stderr = lastRun.stderr
              /\ error.cause = exc
        /\ Len(repairLog) = MaxCompileFixAttempts
        /\ writes = MaxCompileFixAttempts + 1
        /\ ly_file.text = Last(compLog).source

\* the run ended so, the final run of the compiler having written another
\* text than the run before it
C4_Witness ==
    /\ LastAttemptFailed /\ pc = "fatal"
    /\ error.what = "compile_final"
    /\ error.stderr # exc.stderr

\* C5: a repair output the validator rejects ends the run at once: it is the
\* last repair call, the error is the validator's, the file keeps the text
\* that was to be repaired, and no compile attempt follows.
C5_RejectedRepairFatal ==
    \A i \in 1..Len(repairLog) :
        repairLog[i].result = "rejected" =>
            /\ i = Len(repairLog)
            /\ pc = "fatal"
            /\ error = ValidationError(validate_lilypond_source(repairLog[i].fixed))
            /\ error.violations # <<>>
            /\ ly_file.text = repairLog[i].broken
            /\ ly_file.text # repairLog[i].fixed
            /\ Len(compLog) = i
            /\ writes = i

\* the first repair was rejected, with a repair attempt remaining
C5_Witness ==
    /\ Len(repairLog) = 1 /\ repairLog[1].result = "rejected"
    /\ repairLog[1].idx + 1 < MaxCompileFixAttempts
    /\ pc = "fatal"

\* C6 (as claimed): every repair call receives the diagnostics the compiler
\* wrote in the compile attempt that failed, and of no other run.
C6_RepairSeesFailedAttemptStderr ==
    \A i \in 1..Len(repairLog) :
        /\ repairLog[i].run = compLog[i].run
        /\ repairLog[i].excerpt = Excerpt(compLog[i].stderr)

Min(a, b) == IF a <= b THEN a ELSE b

\* C6 (amended): repair calls are sequential, the i-th after the i-th failed
\* compile attempt and on the Score Source that attempt compiled; the
\* diagnostics it receives are the stderr of the run of the compiler the
\* handler makes itself after the failed attempt (the second run after the
\* attempt's own), stripped and cut to its trailing 4000 characters; never
\* those of an earlier attempt or of an earlier Score Source.
C6_RepairSeesHandlerRerunStderr ==
    \A i \in 1..Len(repairLog) :
        /\ repairLog[i].idx = i - 1
        /\ i <= Len(compLog) /\ ~compLog[i].rc0
        /\ repairLog[i].broken = compLog[i].source
        /\ repairLog[i].run = compLog[i].run + 2
        /\ i < Len(compLog) => repairLog[i].run < compLog[i + 1].run
        /\ RLen(repairLog[i].excerpt)
              = Min(RLen(RStrip(repairLog[i].stderr)), ExcerptLimit)
        /\ \/ repairLog[i].excerpt = RStrip(repairLog[i].stderr)
           \/ /\ RLen(RStrip(repairLog[i].stderr)) > ExcerptLimit
              /\ Last(repairLog[i].excerpt).c = Last(RStrip(repairLog[i].stderr)).c

\* a second repair received a long text, cut, while the failed attempt itself
\* had written the short one
C6_Witness ==
    /\ Len(repairLog) = 2
    /\ repairLog[2].stderr = E_long /\ compLog[2].stderr = E_short
    /\ RLen(repairLog[2].excerpt) = ExcerptLimit

\* the text of the latest generated or repaired source that was accepted
LatestAccepted ==
    LET oks == {i \in 1..Len(repairLog) : repairLog[i].result = "ok"}
    IN  IF oks = {} THEN ly_code
        ELSE repairLog[CHOOSE i \in oks : \A j \in oks : j <= i].fixed

\* C7: from the first write on the file holds the text of the latest attempt:
\* every compile attempt reads the text generation returned (the first) or
\* the preceding repair returned (the others), and at the end of the loop,
\* success or fatal, the file holds what the last compile attempt read; after
\* a failed first and a successful second compile it is the repaired text.
C7_FileMatchesLastAttempt ==
    /\ writes = 0 => ~ly_file.exists
    /\ writes >= 1 => (ly_file.exists /\ ly_file.text = LatestAccepted)
    /\ \A i \in 1..Len(compLog) :
          compLog[i].source = IF i = 1 THEN ly_code ELSE repairLog[i - 1].fixed
    /\ (pc \in {"compiled", "fatal"} /\ writes >= 1)
          => ly_file.text = Last(compLog).source
    /\ (Len(compLog) = 2 /\ compLog[2].ok) => ly_file.text = repairLog[1].fixed

\* a failed first compile, a repair returning another text, a successful
\* second compile
C7_Witness ==
    /\ pc = "compiled" /\ Len(compLog) = 2 /\ compLog[2].ok
    /\ repairLog[1].fixed # compLog[1].source
    /\ ly_file.text = repairLog[1].fixed

-----------------------------------------------------------------------------
(* Claims about the text functions                                         *)

\* the six rules as the contract states them: the marker, and whether it has
\* to be present (TRUE) or absent (FALSE)
Rules ==
    { [marker |-> M_version, present |-> TRUE, msg |-> MsgVersion],
      [marker |-> M_octaveCheck, present |-> TRUE, msg |-> MsgOctaveCheck],
      [marker |-> M_PianoStaff, present |-> TRUE, msg |-> MsgPianoStaff],
      [marker |-> M_midi, present |-> TRUE, msg |-> MsgMidi],
      [marker |-> M_layout, present |-> TRUE, msg |-> MsgLayout],
      [marker |-> M_relative, present |-> FALSE, msg |-> MsgRelative] }

Breaks(s, r) == Contains(s, r.marker) # r.present

BrokenRules(s) == {r \in Rules : Breaks(s, r)}

\* C8: the validator reports one violation per broken rule and no other: the
\* number of violations is the number of rules the source breaks, no two
\* violations name the same rule, every broken rule is named, and the source
\* is accepted (no violation) exactly when it breaks no rule.
C8_ValidatorExhaustive ==
    fpc = "validated" =>
        /\ Len(errors) = Cardinality(BrokenRules(src))
        /\ \A i, j \in 1..Len(errors) : i # j => errors[i] # errors[j]
        /\ {errors[i] : i \in 1..Len(errors)} = {r.msg : r \in BrokenRules(src)}
        /\ (errors = <<>>) <=> (BrokenRules(src) = {})

\* a source that breaks all six rules has been validated, with six violations
C8_Witness ==
    /\ fpc = "validated"
    /\ Cardinality(BrokenRules(src)) = 6
    /\ Len(errors) = 6

\* C9 (as claimed): normalizing twice with the same title gives what
\* normalizing once gives, for every source and every title.
C9_Idempotent == fpc = "twice" => out2 = out

RECURSIVE Unquote(_, _)
\* the text a quoted string denotes, read from position i (after the opening
\* quote) to the first quote that no backslash escapes
Unquote(s, i) ==
    IF i > Len(s) THEN <<"<unterminated>">>
    ELSE IF s[i] = DQ THEN <<>>
    ELSE IF s[i] = BS
         THEN IF i + 1 > Len(s) THEN <<"<unterminated>">>
              ELSE <<s[i + 1]>> \o Unquote(s, i + 2)
         ELSE <<s[i]>> \o Unquote(s, i + 1)

TitleKey == K_title \o <<SP, "=", SP, DQ>>

\* what the first `title = "..."` of a text decodes to
DecodedTitle(s) ==
    LET hits == {i \in 1..Len(s) : StartsWithAt(s, i, TitleKey)}
    IN  IF hits = {} THEN <<"<no title field>">>
        ELSE Unquote(s, (CHOOSE i \in hits : \A h \in hits : i <= h) + Len(TitleKey))

HasSpecial(t) == \E i \in 1..Len(t) : t[i] \in {BS, DQ}

\* C10 (as claimed): for a title holding a double quote or a backslash, the
\* title field of the normalized header is a quoted string that decodes back
\* to the title, whether the header was synthesized or its title replaced.
C10_EscapedTitleDecodes ==
    (fpc = "once" /\ HasSpecial(title)) => DecodedTitle(out) = title

RECURSIVE CloseBrace(_, _, _, _)
\* the position of the brace that balances an opening brace, read from
\* position i at nesting depth d; q tells whether i is inside a quoted string,
\* where braces do not count and a backslash escapes the next character
CloseBrace(s, i, d, q) ==
    IF i > Len(s) THEN Len(s) + 1
    ELSE IF q
         THEN IF s[i] = BS THEN CloseBrace(s, i + 2, d, TRUE)
              ELSE CloseBrace(s, i + 1, d, s[i] # DQ)
    ELSE IF s[i] = DQ THEN CloseBrace(s, i + 1, d, TRUE)
    ELSE IF s[i] = "{" THEN CloseBrace(s, i + 1, d + 1, FALSE)
    ELSE IF s[i] = "}"
         THEN IF d = 1 THEN i ELSE CloseBrace(s, i + 1, d - 1, FALSE)
    ELSE CloseBrace(s, i + 1, d, FALSE)

\* a header block that starts at i: \header, an opening brace, and the
\* brace that balances it (`stop`)
BlockAt(s, i) ==
    LET j == SkipSpace(s, i + Len(K_header))
        k == CloseBrace(s, j + 1, 1, FALSE)
    IN  IF /\ StartsWithAt(s, i, K_header)
           /\ j <= Len(s) /\ s[j] = "{"
           /\ k <= Len(s)
        THEN [found |-> TRUE, start |-> i, body |-> j + 1, stop |-> k]
        ELSE NoMatch

Blocks(s) == {i \in 1..Len(s) : BlockAt(s, i).found}

\* the first header block of a text
FirstBlock(s) ==
    IF Blocks(s) = {} THEN NoMatch
    ELSE BlockAt(s, CHOOSE i \in Blocks(s) : \A h \in Blocks(s) : i <= h)

BlockBody(s, m) == SubSeq(s, m.body, m.stop - 1)

\* the places of a text where a field named key is assigned
KeyHits(b, key) ==
    {i \in 1..Len(b) :
        /\ StartsWithAt(b, i, key)
        /\ (i = 1 \/ IsSpace(b[i - 1]))
        /\ LET r == SkipSpace(b, i + Len(key))
           IN  r <= Len(b) /\ b[r] = "="}

\* the field assigned at i has exactly the value v
ValueIs(b, i, key, v) ==
    LET r == SkipSpace(b, i + Len(key))
        p == SkipSpace(b, r + 1)
        e == p + Len(v)
    IN  /\ StartsWithAt(b, p, v)
        /\ (e > Len(b) \/ IsSpace(b[e]))

\* b holds exactly one field named key, and its value is v
OneField(b, key, v) ==
    /\ Cardinality(KeyHits(b, key)) = 1
    /\ \A i \in KeyHits(b, key) : ValueIs(b, i, key, v)

K_oldTitle == <<DQ, "O", DQ>>
K_composerField == <<"c", "o", "m", "p", "o", "s", "e", "r", " ", "=", " ", "\"", "B", "\"">>

\* C11 (as claimed): when the source has a header block, the block is the one
\* closed by the brace that balances its opening brace; after normalizing,
\* that block holds exactly one title field, whose value is the escaped
\* title in quotes, and exactly one tagline field, whose value is ##f; the
\* old title value is gone, the other fields of the header are still in it,
\* and the text before and after the block is the text of the source.
C11_HeaderUpdatedInPlace ==
    (fpc = "once" /\ FirstBlock(src).found) =>
        LET h == FirstBlock(src)
            o == FirstBlock(out)
            hb == BlockBody(src, h)
            ob == BlockBody(out, o)
        IN  /\ o.found
            /\ OneField(ob, K_title, QuotedTitle(title))
            /\ OneField(ob, K_tagline, K_tagoff)
            /\ ~Contains(ob, K_oldTitle)
            /\ Contains(hb, K_composerField) => Contains(ob, K_composerField)
            /\ Before(out, o.start) = Before(src, h.start)
            /\ From(out, o.stop) = From(src, h.stop)

IsBlank(s) == \A i \in 1..Len(s) : IsSpace(s[i])

\* C12 (as claimed): after normalizing, the source holds exactly one header
\* block, and the block has a title field and a tagline field, for every
\* source; a source without a header block gets one right after its version
\* declaration (nothing but blank space between them), or at its very start
\* when it has no version declaration, and the rest of the source follows
\* the block; a source with a header block gets no further block.
C12_ExactlyOneHeader ==
    fpc = "once" =>
        LET o == FirstBlock(out)
            ob == BlockBody(out, o)
            vm == VersionSearch(src)
        IN  /\ Cardinality(Blocks(out)) = 1
            /\ KeyHits(ob, K_title) # {}
            /\ KeyHits(ob, K_tagline) # {}
            /\ Blocks(src) # {} => Cardinality(Blocks(out)) = Cardinality(Blocks(src))
            /\ (Blocks(src) = {} /\ ~vm.found) =>
                   o.start = 1 /\ From(out, o.stop + 1) = <<NL, NL>> \o src
            /\ (Blocks(src) = {} /\ vm.found) =>
                   /\ Before(out, vm.stop) = Before(src, vm.stop)
                   /\ IsBlank(SubSeq(out, vm.stop, o.start - 1))
                   /\ From(out, o.stop + 1) = <<NL, NL>> \o From(src, vm.stop)

-----------------------------------------------------------------------------
(* Claims about the classifier                                             *)

Msgs(m) == Flatten(m.tracks)

\* the positions of the note-starts that sound: note_on with a velocity above 0
Sounding(m) ==
    {i \in 1..Len(Msgs(m)) : Msgs(m)[i].type = "note_on" /\ Msgs(m)[i].velocity > 0}

SoundingChannels(m) == {Msgs(m)[i].channel : i \in Sounding(m)}

\* C13: the classifier returns (none, none) exactly when the stream has no
\* note-start with a velocity above 0 (a note-start of velocity 0 does not
\* count), and when exactly one channel carries such note-starts it returns
\* that channel as the low voice and as the high voice.
C13_NoneOrSingleChannel ==
    mpc = "guessed" =>
        /\ (guessed = <<None, None>>) <=> (Sounding(mid) = {})
        /\ (guessed[1] = None) <=> (guessed[2] = None)
        /\ \A c \in Channels : SoundingChannels(mid) = {c} => guessed = <<c, c>>

\* a stream whose only note_on messages have velocity 0 has been classified
C13_Witness ==
    /\ mpc = "guessed"
    /\ \E i \in 1..Len(Msgs(mid)) :
          Msgs(mid)[i].type = "note_on" /\ Msgs(mid)[i].velocity = 0
    /\ Sounding(mid) = {}
    /\ guessed = <<None, None>>

\* the counts of a channel, taken from the stream as a whole
LowCount(m, c) ==
    Cardinality({i \in Sounding(m) : Msgs(m)[i].channel = c /\ Msgs(m)[i].note < 60})
HighCount(m, c) ==
    Cardinality({i \in Sounding(m) : Msgs(m)[i].channel = c /\ Msgs(m)[i].note >= 60})
TotalCount(m, c) == Cardinality({i \in Sounding(m) : Msgs(m)[i].channel = c})

\* the lexicographic order of pairs
LexLeq(a, b) == a[1] < b[1] \/ (a[1] = b[1] /\ a[2] <= b[2])

\* c is best among the channels S by (low, total), and by (high, total)
LowBest(m, S, c) ==
    /\ c \in S
    /\ \A d \in S : LexLeq(<<LowCount(m, d), TotalCount(m, d)>>,
                           <<LowCount(m, c), TotalCount(m, c)>>)
HighBest(m, S, c) ==
    /\ c \in S
    /\ \A d \in S : LexLeq(<<HighCount(m, d), TotalCount(m, d)>>,
                           <<HighCount(m, c), TotalCount(m, c)>>)

\* C14: over the counts of sounding note-starts per channel (low = pitch
\* below 60, high = pitch 60 and above, total = both), the low voice is a
\* channel that maximizes (low, total) in the lexicographic order; the high
\* voice is a channel that maximizes (high, total), unless that pick is the
\* low voice and there is another channel: then, and only then, the high
\* voice is the best by (high, total) among the channels other than the low
\* voice.
C14_LexicographicPicks ==
    (mpc = "guessed" /\ Sounding(mid) # {}) =>
        LET S == SoundingChannels(mid)
            lh == guessed[1]
            rh == guessed[2]
        IN  /\ LowBest(mid, S, lh)
            /\ TotalCount(mid, lh) = LowCount(mid, lh) + HighCount(mid, lh)
            /\ Cardinality(S) = 1 => rh = lh
            /\ Cardinality(S) > 1 =>
                  \/ rh # lh /\ HighBest(mid, S, rh)
                  \/ /\ HighBest(mid, S, lh)
                     /\ HighBest(mid, S \ {lh}, rh)

\* three channels sound, the low voice is also the one best by (high,
\* total), and the high voice returned is another channel, not best overall
C14_Witness ==
    /\ mpc = "guessed"
    /\ Cardinality(SoundingChannels(mid)) = 3
    /\ HighBest(mid, SoundingChannels(mid), guessed[1])
    /\ guessed[2] # guessed[1]
    /\ ~HighBest(mid, SoundingChannels(mid), guessed[2])
    /\ HighBest(mid, SoundingChannels(mid) \ {guessed[1]}, guessed[2])

\* channel a sounds only below 60 and channel b only at 60 and above, and no
\* other channel sounds
LowAndHigh(m, a, b) ==
    /\ a # b /\ SoundingChannels(m) = {a, b}
    /\ HighCount(m, a) = 0 /\ LowCount(m, b) = 0

\* the stream with every velocity above 0 replaced by w
Revoice(m, w) ==
    [m EXCEPT !.tracks =
        [t \in 1..Len(m.tracks) |->
            [i \in 1..Len(m.tracks[t]) |->
                IF m.tracks[t][i].velocity > 0 /\ m.tracks[t][i].type = "note_on"
                THEN [m.tracks[t][i] EXCEPT !.velocity = w]
                ELSE m.tracks[t][i]]]]

\* C15: when exactly two channels sound, a only below 60 and b only at 60
\* and above, the classifier returns (a, b), in whatever order and track the
\* events come and however many there are on each channel, and it returns
\* the same for the stream with all its velocities replaced by another
\* velocity above 0.
C15_LowHighSymmetry ==
    mpc = "guessed" =>
        \A a, b \in Channels :
            LowAndHigh(mid, a, b) =>
                /\ guessed = <<a, b>>
                /\ \A w \in {1, 127} : guess_lh_rh_channels(Revoice(mid, w)) = <<a, b>>

\* a classified stream of two tracks whose first sounding event is a high
\* one, on the channel with fewer events, the low channel coming after it
C15_Witness ==
    /\ mpc = "guessed"
    /\ Len(mid.tracks) = 2
    /\ \E a, b \in Channels :
          /\ LowAndHigh(mid, a, b)
          /\ Msgs(mid)[1].channel = b /\ 1 \in Sounding(mid)
          /\ TotalCount(mid, b) < TotalCount(mid, a)
          /\ guessed = <<a, b>>

-----------------------------------------------------------------------------
(* Claims about the rebalancer                                             *)

\* the places (track, index) of the messages of a file
Places(m) ==
    UNION {{<<t, i>> : i \in 1..Len(m.tracks[t])} : t \in 1..Len(m.tracks)}

At(m, p) == m.tracks[p[1]][p[2]]

\* the places of the input where a note-start sounds
SoundingPlaces(m) ==
    {p \in Places(m) : At(m, p).type = "note_on" /\ At(m, p).velocity > 0}

\* the two files have the same tracks, message for message in number
SameShape(a, b) ==
    /\ Len(a.tracks) = Len(b.tracks)
    /\ \A t \in 1..Len(a.tracks) : Len(a.tracks[t]) = Len(b.tracks[t])

\* C16: in the file the rebalancer writes, every note-start that sounds in
\* the input (velocity above 0) has a velocity from 1 to 127, whatever the
\* two scales: a product that rounds to 0 is written as 1, a product above
\* 127 as 127, and no sounding note is written with velocity 0.
C16_VelocityRange ==
    mpc = "balanced" =>
        /\ SameShape(mid, outmid)
        /\ \A p \in SoundingPlaces(mid) :
              /\ At(outmid, p).type = "note_on"
              /\ At(outmid, p).velocity >= 1
              /\ At(outmid, p).velocity <= 127

\* a file has been written in which a note of velocity 1, halved, came out
\* as 1 and a note of velocity 120, doubled, came out as 127
C16_Witness ==
    /\ mpc = "balanced"
    /\ left_scale = [num |-> 1, den |-> 2] /\ right_scale = [num |-> 2, den |-> 1]
    /\ \E p, q \in SoundingPlaces(mid) :
          /\ At(mid, p).channel = returned[1] /\ At(mid, p).velocity = 1
          /\ At(outmid, p).velocity = 1
          /\ At(mid, q).channel = returned[2] /\ At(mid, q).velocity = 120
          /\ At(outmid, q).velocity = 127

\* n is an integer nearest to v * scale
Nearest(n, v, scale) ==
    LET d == 2 * (v * scale.num - n * scale.den)
    IN  d <= scale.den /\ -d <= scale.den

\* w is what the product v * scale gives once rounded and held in 1..127
RoundedAndHeld(w, v, scale) ==
    \E n \in 0..(2 * 127) :
        /\ Nearest(n, v, scale)
        /\ w = (IF n < 1 THEN 1 ELSE IF n > 127 THEN 127 ELSE n)

\* C17: a note-start of velocity v above 0 is written with round(v * low
\* scale) held in 1..127 when its channel is the low voice, with round(v *
\* high scale) held in 1..127 when its channel is (not the low but) the high
\* voice, and with v when it is neither; the voices are those the classifier
\* gives for the input, and with (none, none) no velocity changes.
C17_ScaledByVoice ==
    mpc = "balanced" =>
        /\ SameShape(mid, outmid)
        /\ returned = guess_lh_rh_channels(mid)
        /\ \A p \in SoundingPlaces(mid) :
              LET ch == At(mid, p).channel
                  v == At(mid, p).velocity
                  w == At(outmid, p).velocity
              IN  IF ch = returned[1] THEN RoundedAndHeld(w, v, left_scale)
                  ELSE IF ch = returned[2] THEN RoundedAndHeld(w, v, right_scale)
                  ELSE w = v
        /\ returned = <<None, None>> =>
              \A p \in Places(mid) : At(outmid, p).velocity = At(mid, p).velocity

\* three channels sound, one the low voice, one the high voice, one neither,
\* under two different scales, and a tie (5 halved) has been rounded
C17_Witness ==
    /\ mpc = "balanced"
    /\ left_scale = [num |-> 1, den |-> 2] /\ right_scale = [num |-> 2, den |-> 1]
    /\ returned[1] # returned[2]
    /\ \E p, q, r \in SoundingPlaces(mid) :
          /\ At(mid, p).channel = returned[1] /\ At(mid, p).velocity = 5
          /\ At(outmid, p).velocity = 2
          /\ At(mid, q).channel = returned[2] /\ At(outmid, q).velocity # At(mid, q).velocity
          /\ At(mid, r).channel \notin {returned[1], returned[2]}
          /\ At(outmid, r).velocity = At(mid, r).velocity

\* C18: the rebalancer changes nothing but the velocity of the note-starts
\* that sound: the written file has the time base of the input, as many
\* tracks in the same order, as many messages in each track in the same
\* order; a message that is no note-start, and a note-start of velocity 0,
\* is copied as it is; a rescaled note-start keeps its channel, its pitch
\* and its delta time.
C18_OnlyVelocitiesChange ==
    mpc = "balanced" =>
        /\ outmid.ticks_per_beat = mid.ticks_per_beat
        /\ SameShape(mid, outmid)
        /\ \A p \in Places(mid) \ SoundingPlaces(mid) : At(outmid, p) = At(mid, p)
        /\ \A p \in SoundingPlaces(mid) :
              /\ At(outmid, p).type = At(mid, p).type
              /\ At(outmid, p).channel = At(mid, p).channel
              /\ At(outmid, p).note = At(mid, p).note
              /\ At(outmid, p).time = At(mid, p).time

\* a file of two tracks has been written, with a note end, a note-start of
\* velocity 0 and a note-start whose velocity is not the one it had
C18_Witness ==
    /\ mpc = "balanced"
    /\ Len(mid.tracks) = 2
    /\ \E p, q \in Places(mid) \ SoundingPlaces(mid) :
          /\ At(mid, p).type = "note_off"
          /\ At(mid, q).type = "note_on" /\ At(mid, q).velocity = 0
          /\ At(outmid, q).velocity = 0
    /\ \E p \in SoundingPlaces(mid) : At(outmid, p).velocity # At(mid, p).velocity

\* C19: with the low scale and the high scale both 1.0 the written stream is
\* the input stream, message for message and velocity for velocity, for
\* every input (velocities from 0 to 127) and whatever the voices are.
C19_UnitScalesIdentity ==
    (mpc = "balanced" /\ left_scale = One /\ right_scale = One) => outmid = mid

\* a stream with a low voice, another high voice, a sounding note on each
\* and a note-start of velocity 0 has been rewritten with both scales 1.0
C19_Witness ==
    /\ mpc = "balanced" /\ left_scale = One /\ right_scale = One
    /\ returned[1] # returned[2]
    /\ \E p, q \in SoundingPlaces(mid) :
          At(mid, p).channel = returned[1] /\ At(mid, q).channel = returned[2]
    /\ \E p \in Places(mid) : At(mid, p).type = "note_on" /\ At(mid, p).velocity = 0
    /\ outmid = mid

-----------------------------------------------------------------------------
(* Claims about the prompt                                                 *)

T_gMajor == <<"g", " ", "m", "a", "j", "o", "r">>
T_twoFour == <<"2", "/", "4">>
T_aMinor == <<"a", " ", "m", "i", "n", "o", "r">>
T_fiveFour == <<"5", "/", "4">>
T_keyMarker == <<"\\", "k", "e", "y">>
T_timeMarker == <<"\\", "t", "i", "m", "e">>

\* C20: every generation call, the first included, is made with a prompt in
\* which a motif without a key marker has the key 'g major' and a motif
\* without a time marker has the time signature '2/4'; each default stands
\* alone: a motif with only a key keeps its key and gets '2/4', a motif with
\* only a time signature keeps it and gets 'g major'; and the prompt is
\* built, defaults included, before any generation call is made.
C20_PromptDefaults ==
    /\ \A i \in 1..Len(genLog) :
          LET p == genLog[i].prompt
          IN  /\ ~Contains(motif, T_keyMarker) => p.key_desc = T_gMajor
              /\ ~Contains(motif, T_timeMarker) => p.time_sig = T_twoFour
              /\ motif = Mo_keyOnly => p.key_desc = T_aMinor /\ p.time_sig = T_twoFour
              /\ motif = Mo_timeOnly => p.key_desc = T_gMajor /\ p.time_sig = T_fiveFour
              /\ p.motif = Strip(motif)
    /\ (pc = "generate" /\ genLog = <<>>) =>
          /\ user_prompt # NoPrompt
          /\ ~Contains(motif, T_keyMarker) => user_prompt.key_desc = T_gMajor
          /\ ~Contains(motif, T_timeMarker) => user_prompt.time_sig = T_twoFour

\* a generation call has been made for the motif that has a key and no time
\* signature, with the motif's key and the default time signature
C20_Witness ==
    /\ motif = Mo_keyOnly
    /\ Len(genLog) >= 1
    /\ genLog[1].attempt = 1
    /\ genLog[1].prompt.key_desc = T_aMinor
    /\ genLog[1].prompt.time_sig = T_twoFour

-----------------------------------------------------------------------------
(* Claims about the classifier and the rebalancer, continued               *)

\* C29: whenever two channels or more carry note-starts with a velocity
\* above 0, the classifier returns two different channels, and each of the
\* two carries such note-starts.
C29_TwoDistinctSoundingVoices ==
    (mpc = "guessed" /\ Cardinality(SoundingChannels(mid)) >= 2) =>
        /\ guessed[1] # guessed[2]
        /\ guessed[1] \in SoundingChannels(mid)
        /\ guessed[2] \in SoundingChannels(mid)

\* two channels sound, both only below 60, so that one channel is the first
\* pick for both voices; a third channel has only a note-start of velocity 0;
\* the two sounding channels have been returned
C29_Witness ==
    /\ mpc = "guessed"
    /\ Cardinality(SoundingChannels(mid)) = 2
    /\ \A c \in SoundingChannels(mid) : HighCount(mid, c) = 0
    /\ \E i \in 1..Len(Msgs(mid)) :
          /\ Msgs(mid)[i].type = "note_on" /\ Msgs(mid)[i].velocity = 0
          /\ Msgs(mid)[i].channel \notin SoundingChannels(mid)
    /\ guessed[1] # guessed[2]
    /\ {guessed[1], guessed[2]} = SoundingChannels(mid)

\* C30: when the low voice and the high voice are the same channel, every
\* note-start of that channel with a velocity above 0 is written with
\* round(v * low scale) held in 1..127, and the high scale has no effect:
\* with any other high scale the written file is the same.
C30_SingleVoiceLowScaleOnly ==
    (mpc = "balanced" /\ returned[1] # None /\ returned[1] = returned[2]) =>
        /\ \A p \in SoundingPlaces(mid) :
              At(mid, p).channel = returned[1] =>
                  RoundedAndHeld(At(outmid, p).velocity, At(mid, p).velocity,
                                 left_scale)
        /\ \A rs \in Scales :
              balance_midi_velocities(mid, left_scale, rs).saved = outmid

\* one channel is both voices, the low scale is 0.5 and the high scale 2.0,
\* and a note of velocity 120 has been written with velocity 60
C30_Witness ==
    /\ mpc = "balanced"
    /\ returned[1] # None /\ returned[1] = returned[2]
    /\ left_scale = [num |-> 1, den |-> 2] /\ right_scale = [num |-> 2, den |-> 1]
    /\ \E p \in SoundingPlaces(mid) :
          /\ At(mid, p).channel = returned[1]
          /\ At(mid, p).velocity = 120 /\ At(outmid, p).velocity = 60

-----------------------------------------------------------------------------
(* Claims about the pipeline, continued                                    *)

\* C24: a call to the generation service that fails (network, auth) is
\* consumed by the retry loop: it counts as one failed attempt and the
\* pipeline goes on with the next permitted attempt, never ending the run by
\* itself; this holds for every call to the service, a first-generation call
\* (next generation attempt) and a repair call (next compile+repair attempt)
\* alike.
C24_ServiceFailureConsumed ==
    [][/\ (Len(genLog') > Len(genLog) /\ Last(genLog').err.type = "APIError") =>
              /\ attempt' = attempt + 1
              /\ pc' = "generate" /\ error' = NoError
       /\ (Len(repairLog') > Len(repairLog) /\ Last(repairLog').result = "raised") =>
              /\ fix_attempt' = fix_attempt + 1
              /\ pc' # "fatal" /\ error' = NoError]_vars

\* the texts a run with title t may hand to the compiler: a response of the
\* service, sanitized, header-normalized with t, and accepted by the validator
HeaderNormalizedOf ==
    [r \in Responses, t \in RunTitles |->
        inject_or_update_header(sanitize_model_output(r), t)]
Compilable ==
    [t \in RunTitles |->
        {HeaderNormalizedOf[r, t] : r \in
            {q \in Responses :
                validate_lilypond_source(HeaderNormalizedOf[q, t]) = <<>>}}]

\* C25: every Score Source the compiler is invoked on, the first generated
\* text as well as every repaired text, and in the handler's re-run of the
\* compiler too, has been header-normalized with the run's title and has
\* passed the validator.
C25_CompiledSourcesNormalizedAndValid ==
    /\ \A i \in 1..Len(compLog) : compLog[i].source \in Compilable[title]
    /\ pc \in {"compile", "handler"} =>
          (ly_file.exists /\ ly_file.text \in Compilable[title])

\* the second compile attempt ran on a repaired text, another text than the
\* first, which the service had returned in a form that normalization changed
C25_Witness ==
    /\ Len(compLog) = 2 /\ Len(repairLog) = 1
    /\ compLog[2].source # compLog[1].source
    /\ compLog[2].source = repairLog[1].fixed
    /\ \E r \in Responses :
          /\ compLog[2].source = HeaderNormalizedOf[r, title]
          /\ r # compLog[2].source

\* C28: when the compiler exits with status 0 but the PDF is missing, or the
\* event-stream file is missing under both extensions (.midi and .mid), the
\* run ends at once with a fatal error: the compile loop does not handle it
\* as a compile failure, so the compiler is not run again and no repair call
\* and no further compile attempt is made, even when repair attempts remain.
C28_MissingArtifactFatal ==
    /\ \A f \in Artifacts :
          /\ CompiledArtifacts(Basename, f).raised <=>
                (~f.pdf \/ (~f.midi /\ ~f.mid))
          /\ CompiledArtifacts(Basename, f).raised =>
                CompiledArtifacts(Basename, f).error.type = "FileNotFoundError"
    /\ \A i \in 1..Len(compLog) :
          (compLog[i].rc0 /\ ~compLog[i].ok) =>
              /\ i = Len(compLog)
              /\ pc = "fatal" /\ error.type = "FileNotFoundError"
              /\ lastRun.n = compLog[i].run
              /\ Len(repairLog) = i - 1
              /\ \A j \in 1..Len(repairLog) : repairLog[j].run < compLog[i].run

\* the first compile attempt exited with 0 and left no event-stream file: the
\* run is over, no repair call was made, and both repair attempts remained
C28_Witness ==
    /\ pc = "fatal" /\ error = FileNotFound("midi")
    /\ Len(compLog) = 1 /\ compLog[1].rc0 /\ ~compLog[1].ok
    /\ fix_attempt = 0 /\ fix_attempt < MaxCompileFixAttempts
    /\ repairLog = <<>> /\ lastRun.n = 1

-----------------------------------------------------------------------------
(* Claims about the run as a whole                                         *)

\* the render programs in the order of build_outputs
RenderOrder == <<"fluidsynth", "pdftoppm", "magick", "ffmpeg">>

\* C23: audio synthesis, page rasterization, image compositing and video
\* muxing are each invoked at most once in a run, in that order, and only
\* after a compile attempt has succeeded; a nonzero exit status of any of
\* them is fatal: the stage is not retried and no later stage is invoked.
C23_RenderStagesOnceInOrder ==
    /\ Len(stages) <= Len(RenderOrder)
    /\ \A i \in 1..Len(stages) : stages[i].program = RenderOrder[i]
    /\ (stages # <<>> \/ pc \in {"wav", "png", "sheet", "mp4", "done"}) =>
          (compLog # <<>> /\ Last(compLog).rc0 /\ Last(compLog).ok)
    /\ \A i \in 1..Len(stages) :
          stages[i].rc # 0 =>
              /\ i = Len(stages)
              /\ pc = "fatal"
              /\ error = StageError(stages[i].program)
    /\ pc = "done" => (Len(stages) = Len(RenderOrder) /\ \A i \in 1..Len(stages) : stages[i].rc = 0)

\* after a repaired compile, audio and pages were made and the compositing
\* program exited with a nonzero status: the run is over after three calls
C23_Witness ==
    /\ pc = "fatal"
    /\ Len(compLog) = 2 /\ Last(compLog).ok
    /\ Len(stages) = 3
    /\ stages[1].rc = 0 /\ stages[2].rc = 0
    /\ stages[3].program = "magick" /\ stages[3].rc # 0

-----------------------------------------------------------------------------
(* Claims about the command line                                           *)

AsciiLetters == Lower \cup Upper

\* an invalid base name as the claim lists it: empty, starting with '.',
\* holding '/' or '\', or holding a character other than letters (taken as
\* the ASCII letters), digits, '.', '_' and '-'
StatedInvalidName(n) ==
    \/ n = <<>>
    \/ n[1] = "."
    \/ \E i \in 1..Len(n) : n[i] \in {"/", BS}
    \/ \E i \in 1..Len(n) : n[i] \notin AsciiLetters \cup Digits \cup {".", "_", "-"}

\* the scale and gain arguments the claim calls malformed
BadNumbers(a) ==
    \/ a.lh_scale.num <= 0
    \/ a.rh_scale.num <= 0
    \/ a.fluidsynth_gain < 5
    \/ a.fluidsynth_gain > 500

\* main has returned a nonzero status and no part of the pipeline has run
\* or can run: no generation call, no compiler run, no file written
RejectedBeforePipeline ==
    /\ pc = "rejected" /\ ExitStatus # 0 /\ ExitStatus # None
    /\ genLog = <<>> /\ repairLog = <<>> /\ compLog = <<>>
    /\ writes = 0 /\ ~ly_file.exists /\ disk = NoDisk /\ stages = <<>>
    /\ ~ENABLED NextRun

\* C22, as stated: a base name that is empty, starts with '.', contains '/'
\* or '\', or contains any character other than letters, digits, '.', '_'
\* and '-', or a non-positive scale, or a gain outside the accepted range,
\* is rejected with a nonzero status before the pipeline starts; every other
\* base name is valid and is returned unchanged.
C22_RejectedAsStated ==
    pc # "main" =>
        /\ (StatedInvalidName(args.name) \/ BadNumbers(args)) => RejectedBeforePipeline
        /\ ~StatedInvalidName(args.name) =>
              validate_basename(args.name) = [raised |-> FALSE, value |-> args.name]

\* an invalid base name as the code has it: the stated cases, and a first
\* character that is not an ASCII letter or a digit
InvalidName(n) ==
    \/ StatedInvalidName(n)
    \/ n[1] \notin AsciiLetters \cup Digits

\* C22, amended: a base name that is empty, starts with '.', contains '/' or
\* '\', contains any character other than ASCII letters, digits, '.', '_'
\* and '-', or does not begin with an ASCII letter or a digit, is refused
\* with a ValueError; a non-positive low or high scale, a gain below 0.05 or
\* above 5.0, and a refused name, make main return a nonzero status before
\* the pipeline starts, with no generation call made and no file written;
\* every other base name is returned unchanged.
C22_MalformedInputRejected ==
    pc # "main" =>
        /\ (InvalidName(args.name) \/ BadNumbers(args)) => RejectedBeforePipeline
        /\ InvalidName(args.name) =>
              /\ validate_basename(args.name).raised
              /\ validate_basename(args.name).error.type = "ValueError"
              /\ args.soundfont # NoPath => error.type = "ValueError"
        /\ ~InvalidName(args.name) =>
              validate_basename(args.name) = [raised |-> FALSE, value |-> args.name]
        /\ (~InvalidName(args.name) /\ ~BadNumbers(args) /\ args.soundfont # NoPath) =>
              pc \in {"setup", "crashed", "rejected"} /\ error.type # "ValueError"
                 /\ error.type # "UsageError"

\* a name of permitted characters that begins with '_' has been refused, the
\* scales and the gain being good
C22_Witness ==
    /\ pc = "rejected" /\ error = ValueError("characters")
    /\ args.name = <<"_", "a">>
    /\ ~BadNumbers(args) /\ args.soundfont # NoPath
    /\ genLog = <<>> /\ writes = 0

\* the compiled stream as the rebalancer has to write it with the scales of
\* GoodArgs: the low voice (channel 0) halved, the high voice (channel 1)
\* doubled, the note end as it was
BalancedExpected ==
    [CompiledMidi EXCEPT !.tracks[1][1].velocity = 60, !.tracks[1][2].velocity = 10]

\* for every base name the validator accepts, the path of the balanced file
\* is not a path compile_lilypond can return
MixPathApart ==
    \A b \in {n \in Names : ~validate_basename(n).raised} \cup {Basename} :
        \A f \in {g \in Artifacts : ~CompiledArtifacts(b, g).raised} :
            MidiMixPath(b) # CompiledArtifacts(b, f).midi

\* C27: the event-stream file the compiler produced is never modified after
\* compilation: the rebalancer writes its output to a separate file, whose
\* path differs from the raw file's for every base name and either
\* extension; audio is synthesized from the balanced file when balancing is
\* enabled and from the raw file when it is disabled; when it is disabled
\* the rebalancer is not run and no balanced file is reported.
C27_RawStreamUntouched ==
    /\ MixPathApart
    /\ midi_raw # NoPath =>
          /\ midi_raw \in DOMAIN disk /\ disk[midi_raw] = CompiledMidi
          /\ midi_raw # MidiMixPath(Basename)
    /\ (pc \in {"wav", "png", "sheet", "mp4", "done"} \/ stages # <<>>) =>
          IF args.no_midi_balance
          THEN /\ midi_for_audio = midi_raw
               /\ DOMAIN disk = {midi_raw}
          ELSE /\ midi_for_audio = MidiMixPath(Basename)
               /\ DOMAIN disk = {midi_raw, MidiMixPath(Basename)}
               /\ disk[MidiMixPath(Basename)] = BalancedExpected
    /\ stages # <<>> =>
          /\ stages[1].input.path = midi_for_audio
          /\ stages[1].input.content =
                (IF args.no_midi_balance THEN CompiledMidi ELSE BalancedExpected)
    /\ pc = "done" =>
          /\ outputs.midi_raw = midi_raw
          /\ outputs.midi_used_for_audio = midi_for_audio
          /\ outputs.midi_mix =
                (IF args.no_midi_balance THEN NoPath ELSE MidiMixPath(Basename))

\* a run with balancing disabled is done: audio was made from the raw file,
\* found under the extension .mid, no balanced file exists or is reported
C27_Witness ==
    /\ pc = "done" /\ args.no_midi_balance
    /\ midi_raw = Basename \o K_extMid
    /\ stages[1].input.path = midi_raw /\ stages[1].input.content = CompiledMidi
    /\ DOMAIN disk = {midi_raw}
    /\ outputs.midi_mix = NoPath

\* the errors that report a missing program or a missing input file
MissingInputErrors ==
    {FileNotFound("tool"), FileNotFound("motif"), FileNotFound("soundfont"),
     UsageError("soundfont")}

\* C21: a missing required external program, or a missing input file such as
\* the SoundFont, is reported as a fatal error before any pipeline work
\* begins: when the run ends with such an error no generation call has been
\* made, the compiler has not been invoked and no artifact has been written.
C21_MissingInputBeforePipeline ==
    error \in MissingInputErrors =>
        /\ genLog = <<>> /\ repairLog = <<>>
        /\ compLog = <<>> /\ lastRun = NoRun
        /\ writes = 0 /\ ~ly_file.exists /\ disk = NoDisk

\* main has returned or an exception has left it
Terminated == pc \in {"rejected", "crashed", "fatal", "done"}

\* C26: provided every call to the service, the compiler and the render
\* programs returns, a run always terminates, with all its artifacts or with
\* a fatal error, after at most max_generation_attempts +
\* max_compile_fix_attempts calls to the generation service (4 with the
\* defaults); the retries are driven by the two counters only, each failed
\* attempt moving its counter one up.
C26_RunTerminates ==
    /\ <>[]Terminated
    /\ [](/\ Len(genLog) + Len(repairLog) <= 4
          /\ Len(genLog) <= MaxGenerationAttempts
          /\ Len(repairLog) <= MaxCompileFixAttempts
          /\ Len(compLog) <= MaxCompileFixAttempts + 1
          /\ (pc = "done" => outputs # NoOutputs /\ Len(stages) = 4)
          /\ (pc \in {"fatal", "crashed", "rejected"} => error # NoError))
    /\ [][/\ Len(genLog') > Len(genLog) =>
               (Last(genLog').attempt = Len(genLog') /\ attempt = Len(genLog'))
          /\ Len(repairLog') > Len(repairLog) =>
               (Last(repairLog').idx = Len(repairLog) /\ fix_attempt = Len(repairLog))]_vars

\* a run that made all four calls to the service: two generation attempts,
\* then two repairs, and is over
C26_Witness ==
    /\ Terminated
    /\ Len(genLog) = 2 /\ Len(repairLog) = 2
    /\ Len(compLog) = 3

====
